---- MODULE Spec2Model ----
(***************************************************************************)
(* A model of the metric-processing pipeline of fink (processUtils.js):    *)
(* raw extraction, TTM aggregation, the custom combiner, forward-fill      *)
(* interpolation, the ratio stage and the formula evaluator.               *)
(*                                                                         *)
(* Dates are day numbers 1..MaxDate (a YYYY-MM-DD string and the Date it   *)
(* parses to order the same way); YearLen consecutive days share a         *)
(* calendar year.  A JS number is an exact rational or one of Infinity,    *)
(* -Infinity, NaN; null and undefined are values of their own.             *)
(***************************************************************************)
EXTENDS Integers, Sequences, FiniteSets, TLC

\* ------------------------------------------------------------------ bounds
MaxDate == 4
YearLen == 2
MaxTTMLen == 5
MaxSourceLen == 3
MaxRecs == 2
MaxCacheKeys == 3
\* the capacity of the response cache: 100 in fetchUtils.js, kept small here
CACHE_MAX_SIZE == 2
MaxPathLen == 2
MaxKeys == 2
MaxOperandLen == 2
MaxSelected == 2

Dates == 1..MaxDate

\* ---------------------------------------------------------------- JS values
Num(n) == [k |-> "num", n |-> n, d |-> 1]
Null == [k |-> "null", n |-> 0, d |-> 1]
Undefined == [k |-> "undef", n |-> 0, d |-> 1]
NaN == [k |-> "nan", n |-> 0, d |-> 1]
Inf(s) == [k |-> "inf", n |-> s, d |-> 1]

Abs(x) == IF x < 0 THEN -x ELSE x
Sign(x) == IF x < 0 THEN -1 ELSE 1

RECURSIVE Gcd(_, _)
Gcd(a, b) == IF b = 0 THEN a ELSE Gcd(b, a % b)

\* the rational n/d (d # 0) in lowest terms with a positive denominator
Rat(n, d) ==
    LET g == Gcd(Abs(n), Abs(d))
        s == Sign(d)
    IN  [k |-> "num", n |-> (s * n) \div g, d |-> Abs(d) \div g]

IsNum(v) == v.k = "num"
\* a comparison with 0 that no value passes
NeverZero(v) == FALSE
IsZero(v) == v.k = "num" /\ v.n = 0
\* isNaN(v) of a number
IsNaNVal(v) == v.k = "nan"
\* isFinite(v) of a number
IsFiniteVal(v) == v.k = "num"
SignOf(v) == IF v.n < 0 THEN -1 ELSE 1

\* a + b on JS numbers
JsAdd(a, b) ==
    IF a.k = "nan" \/ b.k = "nan" THEN NaN
    ELSE IF a.k = "inf" /\ b.k = "inf" THEN (IF a.n = b.n THEN a ELSE NaN)
    ELSE IF a.k = "inf" THEN a
    ELSE IF b.k = "inf" THEN b
    ELSE Rat(a.n * b.d + b.n * a.d, a.d * b.d)

JsNeg(a) == IF a.k = "nan" THEN NaN ELSE [a EXCEPT !.n = -a.n]

\* a - b on JS numbers
JsSub(a, b) == JsAdd(a, JsNeg(b))

\* a * b on JS numbers
JsMul(a, b) ==
    IF a.k = "nan" \/ b.k = "nan" THEN NaN
    ELSE IF a.k = "inf" \/ b.k = "inf"
         THEN (IF IsZero(a) \/ IsZero(b) THEN NaN ELSE Inf(SignOf(a) * SignOf(b)))
    ELSE Rat(a.n * b.n, a.d * b.d)

\* a / b on JS numbers
JsDiv(a, b) ==
    IF a.k = "nan" \/ b.k = "nan" THEN NaN
    ELSE IF a.k = "inf" THEN (IF b.k = "inf" THEN NaN ELSE Inf(SignOf(a) * SignOf(b)))
    ELSE IF b.k = "inf" THEN Num(0)
    ELSE IF b.n = 0 THEN (IF a.n = 0 THEN NaN ELSE Inf(SignOf(a)))
    ELSE Rat(a.n * b.d, a.d * b.n)

\* ------------------------------------------------------------------ series
\* A point is {date, value}.  A JS value holding a series is an array of
\* points, an object keyed by date (its entries in key order), or undefined.
Pt(d, v) == [date |-> d, value |-> v]
Arr(s) == [kind |-> "array", pts |-> s]
Obj(s) == [kind |-> "map", pts |-> s]
Undef == [kind |-> "undef", pts |-> <<>>]

IsArray(x) == x.kind = "array"

SeqSet(s) == {s[i] : i \in 1..Len(s)}
DatesOf(s) == {s[i].date : i \in 1..Len(s)}

\* Array.prototype.sort with (a, b) => new Date(a.date) - new Date(b.date):
\* a stable sort, ascending by date
RECURSIVE InsertByDate(_, _)
InsertByDate(sorted, p) ==
    IF sorted = <<>> THEN <<p>>
    ELSE IF sorted[Len(sorted)].date <= p.date THEN Append(sorted, p)
    ELSE Append(InsertByDate(SubSeq(sorted, 1, Len(sorted) - 1), p), sorted[Len(sorted)])

RECURSIVE SortByDateFrom(_, _, _)
SortByDateFrom(s, i, acc) ==
    IF i > Len(s) THEN acc ELSE SortByDateFrom(s, i + 1, InsertByDate(acc, s[i]))

\* the points in the order given
InGivenOrder(s) == s
SortByDate(s) == SortByDateFrom(s, 1, <<>>)

\* ------------------------------------------------------------ calculateTTM
TTMWindow == 4

TTMSumOfThree(s, i) == JsAdd(JsAdd(s[i].value, s[i - 1].value), s[i - 2].value)

TTMSum(s, i) ==
    JsAdd(JsAdd(JsAdd(s[i].value, s[i - 1].value), s[i - 2].value), s[i - 3].value)

calculateTTM(data) ==
    IF ~IsArray(data) \/ Len(data.pts) < TTMWindow THEN <<>>
    ELSE LET sortedData == SortByDate(data.pts)
         IN  [j \in 1..(Len(sortedData) - 3) |->
                 Pt(sortedData[j + 3].date, TTMSum(sortedData, j + 3))]

\* --------------------------------------------------------- interpolateData
\* the while loop of one target date: advance the cursor over every source
\* point dated on or before the target
RECURSIVE AdvanceStrict(_, _, _, _)
AdvanceStrict(sortedSource, sourceIndex, lastValue, targetDate) ==
    IF sourceIndex <= Len(sortedSource) /\ sortedSource[sourceIndex].date < targetDate
    THEN AdvanceStrict(sortedSource, sourceIndex + 1, sortedSource[sourceIndex].value, targetDate)
    ELSE [sourceIndex |-> sourceIndex, lastValue |-> lastValue]

RECURSIVE Advance(_, _, _, _)
Advance(sortedSource, sourceIndex, lastValue, targetDate) ==
    IF sourceIndex <= Len(sortedSource) /\ sortedSource[sourceIndex].date <= targetDate
    THEN Advance(sortedSource, sourceIndex + 1, sortedSource[sourceIndex].value, targetDate)
    ELSE [sourceIndex |-> sourceIndex, lastValue |-> lastValue]

RECURSIVE InterpolateFrom(_, _, _, _, _, _)
InterpolateFrom(sortedSource, targetDates, t, sourceIndex, lastValue, interpolated) ==
    IF t > Len(targetDates) THEN interpolated
    ELSE LET targetDate == targetDates[t]
             c == Advance(sortedSource, sourceIndex, lastValue, targetDate)
             v == IF c.lastValue = Null \/ targetDate < sortedSource[1].date
                  THEN Null ELSE c.lastValue
         IN  InterpolateFrom(sortedSource, targetDates, t + 1, c.sourceIndex,
                             c.lastValue, Append(interpolated, Pt(targetDate, v)))

interpolateData(sourceData, targetDates) ==
    IF ~IsArray(sourceData) THEN <<>>
    ELSE InterpolateFrom(SortByDate(sourceData.pts), targetDates, 1, 1, Null, <<>>)

\* ------------------------------------------------------- the metric catalog
\* metricsConfig of script.js, without netIncome and annualEPS (two plain raw
\* metrics that no other descriptor reads).  fx_adjust is "true", "false" or
\* "unset"; container and field are the two keys of source_path.
PRICE_FN == "TIME_SERIES_MONTHLY_ADJUSTED"

RawDesc(id, fn, container, fld, ts, plottable, fx) ==
    [id |-> id, type |-> IF ts THEN "raw_time_series" ELSE "raw_fundamental",
     source_function |-> fn, container |-> container, field |-> fld,
     isTimeSeries |-> ts, is_plottable |-> plottable, fx_adjust |-> fx,
     calculation_basis |-> "", num |-> "", den |-> ""]

DerivedDesc(id, type, plottable, basis, num, den) ==
    [id |-> id, type |-> type,
     source_function |-> "", container |-> "", field |-> "",
     isTimeSeries |-> FALSE, is_plottable |-> plottable, fx_adjust |-> "unset",
     calculation_basis |-> basis, num |-> num, den |-> den]

metricsConfig ==
    << RawDesc("price", PRICE_FN, "Monthly Adjusted Time Series", "5. adjusted close",
               TRUE, TRUE, "false"),
       RawDesc("quarterlyEPS", "EARNINGS", "quarterlyEarnings", "reportedEPS",
               FALSE, FALSE, "unset"),
       DerivedDesc("ttmEps", "derived_ttm", FALSE, "quarterlyEPS", "", ""),
       RawDesc("annualRevenue", "INCOME_STATEMENT", "annualReports", "totalRevenue",
               FALSE, FALSE, "unset"),
       RawDesc("commonSharesOutstanding", "BALANCE_SHEET", "annualReports",
               "commonStockSharesOutstanding", FALSE, TRUE, "false"),
       RawDesc("dividendPayout", "CASH_FLOW", "annualReports", "dividendPayout",
               FALSE, FALSE, "unset"),
       DerivedDesc("ttmDividends", "derived_custom", TRUE, "",
                   "dividendPayout", "commonSharesOutstanding"),
       DerivedDesc("dividendYieldTTM", "derived_ratio", TRUE, "", "ttmDividends", "price"),
       DerivedDesc("peRatio", "derived_ratio", TRUE, "", "price", "ttmEps"),
       DerivedDesc("psRatio", "derived_ratio", TRUE, "", "price", "rps"),
       DerivedDesc("pFcfRatio", "derived_ratio", TRUE, "", "price", "fcfPerShare"),
       DerivedDesc("rps", "derived_custom", FALSE, "",
                   "annualRevenue", "commonSharesOutstanding"),
       RawDesc("revenues", "INCOME_STATEMENT", "annualReports", "totalRevenue",
               FALSE, TRUE, "unset"),
       RawDesc("capitalExpenditures", "CASH_FLOW", "annualReports", "capitalExpenditures",
               FALSE, TRUE, "unset"),
       RawDesc("operatingCashflow", "CASH_FLOW", "annualReports", "operatingCashflow",
               FALSE, TRUE, "true"),
       DerivedDesc("operatingCashflowPerShare", "derived_custom", FALSE, "",
                   "operatingCashflow", "commonSharesOutstanding"),
       DerivedDesc("pOcfRatio", "derived_ratio", TRUE, "", "price", "operatingCashflowPerShare"),
       DerivedDesc("payoutRatioFcf", "derived_ratio", TRUE, "", "dividendPayout", "fcf"),
       DerivedDesc("payoutRatioOcf", "derived_ratio", TRUE, "", "dividendPayout",
                   "operatingCashflow"),
       DerivedDesc("fcf", "derived_custom", TRUE, "",
                   "operatingCashflow", "capitalExpenditures"),
       DerivedDesc("fcfPerShare", "derived_custom", FALSE, "",
                   "fcf", "commonSharesOutstanding") >>

Catalog == SeqSet(metricsConfig)
MetricIds == {m.id : m \in Catalog}
Desc(id) == CHOOSE m \in Catalog : m.id = id
Sources == {m.source_function : m \in {x \in Catalog : x.source_function # ""}}

\* ------------------------------------------------------------ raw payloads
\* A property of a record is a string, classed by what it spells: a date
\* (of day n), a number (n), "Infinity", "None", or text that is neither a
\* date nor starts a number.  An absent property is undefined.
Str(class, n) == [t |-> "str", s |-> class, n |-> n]
DateStr(d) == Str("date", d)
NumStr(n) == Str("num", n)
InfStr == Str("inf", 0)
NoneStr == Str("None", 0)
JunkStr == Str("junk", 0)
UndefinedProp == [t |-> "undef", s |-> "", n |-> 0]

\* parseFloat(x)
parseFloat(x) ==
    IF x.t = "str" /\ x.s = "num" THEN Num(x.n)
    ELSE IF x.t = "str" /\ x.s = "inf" THEN Inf(1)
    ELSE NaN

\* new Date(x) is a valid date
IsValidDate(x) == x.t = "str" /\ x.s = "date"

\* getNestedValue(obj, [key]) on a record of properties
getNestedValue(obj, key) == IF key \in DOMAIN obj THEN obj[key] ELSE UndefinedProp

\* findValidDate(item, key): the value of the date key when it is a string
\* that is not empty, not 'None' and a valid date; null (no date) otherwise
NoDate == UndefinedProp

findValidDate(item, key) ==
    IF key \in DOMAIN item /\ item[key].t = "str" /\ item[key].s # "empty"
       /\ item[key].s # "None" /\ IsValidDate(item[key])
    THEN item[key] ELSE NoDate

\* A payload: missing from the map, an {error} sentinel, or a document; a
\* document may lack its container; the container holds the records (the
\* entries of a time series in key order, each under its date key "key").
Missing == [kind |-> "missing", hasContainer |-> FALSE, items |-> <<>>]
ErrorSentinel == [kind |-> "error", hasContainer |-> FALSE, items |-> <<>>]
NoContainer == [kind |-> "doc", hasContainer |-> FALSE, items |-> <<>>]
Doc(items) == [kind |-> "doc", hasContainer |-> TRUE, items |-> items]

DATE_KEY == "fiscalDateEnding"

\* ----------------------------------------------- stage 1: raw extraction
\* fxToUse of a descriptor
FxToUseOnlyWhenTrue(mc, fxRateUsed) ==
    IF mc.fx_adjust # "true" THEN Num(1)
    ELSE IF mc.source_function = PRICE_FN THEN Num(1) ELSE fxRateUsed

FxToUse(mc, fxRateUsed) ==
    IF mc.fx_adjust = "false" THEN Num(1)
    ELSE IF mc.source_function = PRICE_FN THEN Num(1) ELSE fxRateUsed

InWindowExclusiveEnd(x, startDate, endDate) ==
    IsValidDate(x) /\ x.n >= startDate /\ x.n < endDate

\* itemDate >= startDate && itemDate <= endDate (false for an invalid date)
InWindow(x, startDate, endDate) ==
    IsValidDate(x) /\ x.n >= startDate /\ x.n <= endDate

RECURSIVE ExtractTimeSeriesKeepNaN(_, _, _, _)
ExtractTimeSeriesKeepNaN(items, mc, startDate, endDate) ==
    IF items = <<>> THEN <<>>
    ELSE LET item == items[1]
             value == parseFloat(getNestedValue(item, mc.field))
             rest == ExtractTimeSeriesKeepNaN(Tail(items), mc, startDate, endDate)
         IN  IF InWindow(item["key"], startDate, endDate)
             THEN <<Pt(item["key"].n, value)>> \o rest
             ELSE rest

\* the forEach over the date keys of a time-series container
RECURSIVE ExtractTimeSeries(_, _, _, _)
ExtractTimeSeries(items, mc, startDate, endDate) ==
    IF items = <<>> THEN <<>>
    ELSE LET item == items[1]
             value == parseFloat(getNestedValue(item, mc.field))
             rest == ExtractTimeSeries(Tail(items), mc, startDate, endDate)
         IN  IF InWindow(item["key"], startDate, endDate) /\ ~IsNaNVal(value)
             THEN <<Pt(item["key"].n, value)>> \o rest
             ELSE rest

\* the forEach over the records of a fundamentals container
RECURSIVE ExtractFundamental(_, _, _, _, _)
ExtractFundamental(items, mc, fxToUse, startDate, endDate) ==
    IF items = <<>> THEN <<>>
    ELSE LET item == items[1]
             dateStr == findValidDate(item, DATE_KEY)
             value == parseFloat(getNestedValue(item, mc.field))
             rest == ExtractFundamental(Tail(items), mc, fxToUse, startDate, endDate)
         IN  IF dateStr # NoDate /\ InWindow(dateStr, startDate, endDate) /\ ~IsNaNVal(value)
             THEN <<Pt(dateStr.n, JsMul(value, fxToUse))>> \o rest
             ELSE rest

ExtractOneEmptyOnSkip(mc, rawData, fxRateUsed, startDate, endDate) ==
    LET raw == rawData[mc.source_function]
    IN  IF raw.kind # "doc" \/ ~raw.hasContainer
        THEN (IF mc.isTimeSeries THEN Obj(<<>>) ELSE Arr(<<>>))
        ELSE IF mc.isTimeSeries
             THEN Obj(ExtractTimeSeries(raw.items, mc, startDate, endDate))
             ELSE Arr(ExtractFundamental(raw.items, mc, FxToUse(mc, fxRateUsed),
                                         startDate, endDate))

\* one iteration of the loop over the raw descriptors
ExtractOne(mc, rawData, fxRateUsed, startDate, endDate) ==
    LET raw == rawData[mc.source_function]
    IN  IF raw.kind # "doc" THEN Undef
        ELSE IF ~raw.hasContainer THEN Undef
        ELSE IF mc.isTimeSeries
             THEN Obj(ExtractTimeSeries(raw.items, mc, startDate, endDate))
             ELSE Arr(ExtractFundamental(raw.items, mc, FxToUse(mc, fxRateUsed),
                                         startDate, endDate))

IsRaw(mc) == mc.type \in {"raw_time_series", "raw_fundamental"}

ExtractRawMetrics(rawData, fxRateUsed, startDate, endDate) ==
    [id \in MetricIds |->
        IF IsRaw(Desc(id)) THEN ExtractOne(Desc(id), rawData, fxRateUsed, startDate, endDate)
        ELSE Undef]

\* processedMetrics[id]: undefined for an id that was never written
Lookup(metrics, id) == IF id \in DOMAIN metrics THEN metrics[id] ELSE Undef

\* a JS value is truthy: every array and object is, undefined is not
Truthy(x) == x.kind # "undef"

\* -------------------------------------------------- stage 2: TTM metrics
RECURSIVE ApplyTTM(_, _)
ApplyTTM(mcs, metrics) ==
    IF mcs = <<>> THEN metrics
    ELSE ApplyTTM(Tail(mcs),
                  [metrics EXCEPT ![mcs[1].id] =
                       Arr(calculateTTM(Lookup(metrics, mcs[1].calculation_basis)))])

IsTTM(mc) == mc.type = "derived_ttm"

AggregateTTMStage(metrics) == ApplyTTM(SelectSeq(metricsConfig, IsTTM), metrics)

\* ----------------------------------------- stage 3: the custom combiner
\* new Date(date).getFullYear()
Year(d) == (d - 1) \div YearLen

\* Map.set / assignment to an object property: the value of an existing key
\* is replaced in place, a new key is appended
RECURSIVE SetEntry(_, _, _)
SetEntry(entries, key, val) ==
    IF entries = <<>> THEN <<[key |-> key, val |-> val]>>
    ELSE IF entries[1].key = key THEN <<[key |-> key, val |-> val]>> \o Tail(entries)
    ELSE <<entries[1]>> \o SetEntry(Tail(entries), key, val)

HasKey(entries, key) == \E i \in 1..Len(entries) : entries[i].key = key
GetEntry(entries, key) == entries[CHOOSE i \in 1..Len(entries) : entries[i].key = key].val

\* toMap(data): year -> value, over the points of an array or the entries
\* of an object
RECURSIVE ToYearMapFrom(_, _, _)
ToYearMapFrom(pts, i, acc) ==
    IF i > Len(pts) THEN acc
    ELSE ToYearMapFrom(pts, i + 1, SetEntry(acc, Year(pts[i].date), pts[i].value))

toMap(data) == ToYearMapFrom(data.pts, 1, <<>>)

\* Array.prototype.find: the first element dated in the year
FirstOfYear(pts, year) ==
    pts[CHOOSE i \in 1..Len(pts) :
            /\ Year(pts[i].date) = year
            /\ \A j \in 1..(i - 1) : Year(pts[j].date) # year]

\* originalDate: looked up in data1 when it is an array, else in data2 when
\* that is an array, else among the keys of data1
OriginalDate(data1, data2, year) ==
    IF IsArray(data1) THEN FirstOfYear(data1.pts, year).date
    ELSE IF IsArray(data2) THEN FirstOfYear(data2.pts, year).date
    ELSE FirstOfYear(data1.pts, year).date

\* the loop over map1.entries()
RECURSIVE CombineFrom(_, _, _, _, _, _, _)
CombineFrom(map1, i, map2, data1, data2, operation, result) ==
    IF i > Len(map1) THEN result
    ELSE LET year == map1[i].key
             val1 == map1[i].val
         IN  IF ~HasKey(map2, year)
             THEN CombineFrom(map1, i + 1, map2, data1, data2, operation, result)
             ELSE LET val2 == GetEntry(map2, year)
                      originalDate == OriginalDate(data1, data2, year)
                      next == IF operation = "subtract"
                              THEN SetEntry(result, originalDate, JsSub(val1, val2))
                              ELSE IF ~IsZero(val2)
                              THEN SetEntry(result, originalDate, JsDiv(val1, val2))
                              ELSE result
                  IN  CombineFrom(map1, i + 1, map2, data1, data2, operation, next)

EntriesToPts(entries) == [i \in 1..Len(entries) |-> Pt(entries[i].key, entries[i].val)]

calculateCustomMetric(metrics, metricId, id1, id2, operation) ==
    IF metricId \notin MetricIds THEN metrics
    ELSE LET data1 == Lookup(metrics, id1)
             data2 == Lookup(metrics, id2)
         IN  IF Truthy(data1) /\ Truthy(data2)
             THEN [metrics EXCEPT ![metricId] =
                      Obj(EntriesToPts(CombineFrom(toMap(data1), 1, toMap(data2),
                                                   data1, data2, operation, <<>>)))]
             ELSE metrics

\* the four calls, in the order of the code
CombineCustomStage(metrics) ==
    LET m1 == calculateCustomMetric(metrics, "rps", "annualRevenue",
                                    "commonSharesOutstanding", "divide")
        m2 == calculateCustomMetric(m1, "fcf", "operatingCashflow",
                                    "capitalExpenditures", "subtract")
        m3 == calculateCustomMetric(m2, "fcfPerShare", "fcf",
                                    "commonSharesOutstanding", "divide")
    IN  calculateCustomMetric(m3, "ttmDividends", "dividendPayout",
                              "commonSharesOutstanding", "divide")

\* ------------------------------------------------ stage 4: interpolation
\* ascending order of a set of dates
RECURSIVE SortAsc(_)
SortAsc(S) ==
    IF S = {} THEN <<>>
    ELSE LET m == CHOOSE x \in S : \A y \in S : x <= y
         IN  <<m>> \o SortAsc(S \ {m})

\* Object.keys(processedMetrics['price'] || {}).sort()
PriceDatesOf(metrics) == SortAsc(DatesOf(Lookup(metrics, "price").pts))

ALWAYS_INTERPOLATED == {"ttmEps", "rps", "fcf", "fcfPerShare"}

metricsToInterpolateNoPlottable == ALWAYS_INTERPOLATED

metricsToInterpolate ==
    {m.id : m \in {x \in Catalog : x.is_plottable \/ x.id \in ALWAYS_INTERPOLATED}}

InterpolateStage(metrics, dates) ==
    [id \in MetricIds |->
        IF ~Truthy(metrics[id]) THEN Undef
        ELSE IF id \notin metricsToInterpolate \/ id = "price" THEN metrics[id]
        ELSE Arr(interpolateData(Arr(metrics[id].pts), dates))]

\* -------------------------------------------------------- stage 5: ratios
\* new Map(...) over the points of an array or the entries of an object
RECURSIVE ToDateMapFrom(_, _, _)
ToDateMapFrom(pts, i, acc) ==
    IF i > Len(pts) THEN acc
    ELSE ToDateMapFrom(pts, i + 1, SetEntry(acc, pts[i].date, pts[i].value))

ToDateMap(data) == ToDateMapFrom(data.pts, 1, <<>>)

\* Map.get
MapGet(entries, key) == IF HasKey(entries, key) THEN GetEntry(entries, key) ELSE Undefined

\* x != null
NotNullish(v) == v # Null /\ v # Undefined

RatioPointNoZeroGuard(num, den, date) ==
    IF NotNullish(num) /\ NotNullish(den)
    THEN Pt(date, JsDiv(num, den)) ELSE Pt(date, Null)

RatioPoint(num, den, date) ==
    IF NotNullish(num) /\ NotNullish(den) /\ ~IsZero(den)
    THEN Pt(date, JsDiv(num, den)) ELSE Pt(date, Null)

RatioResult(numData, denData, dates) ==
    LET numMap == ToDateMap(numData)
        denMap == ToDateMap(denData)
    IN  [i \in 1..Len(dates) |->
            RatioPoint(MapGet(numMap, dates[i]), MapGet(denMap, dates[i]), dates[i])]

RECURSIVE ApplyRatios(_, _, _)
ApplyRatios(mcs, metrics, dates) ==
    IF mcs = <<>> THEN metrics
    ELSE LET numData == Lookup(metrics, mcs[1].num)
             denData == Lookup(metrics, mcs[1].den)
         IN  ApplyRatios(Tail(mcs),
                         IF ~Truthy(numData) \/ ~Truthy(denData) THEN metrics
                         ELSE [metrics EXCEPT ![mcs[1].id] =
                                   Arr(RatioResult(numData, denData, dates))],
                         dates)

IsRatio(mc) == mc.type = "derived_ratio"

EvaluateRatiosStage(metrics, dates) ==
    ApplyRatios(SelectSeq(metricsConfig, IsRatio), metrics, dates)

\* -------------------------------------------------- calculateDerivedMetric
\* A formula is text: a sequence of characters.  Once a value is substituted
\* the text holds the number as one literal, which no identifier of the
\* model (letters only) can match.
Ch(c) == [c |-> c, v |-> Null]
Lit(v) == [c |-> "#", v |-> v]
Letters == {"A", "B", "C"}
IsWordChar(x) == x.c \in Letters

\* formula.match(/[a-zA-Z0-9_]+/g): the maximal runs of word characters,
\* each a sequence of letters, in order of appearance
RECURSIVE MatchIdentifiers(_, _, _, _)
MatchIdentifiers(text, i, run, found) ==
    IF i > Len(text) THEN (IF run = <<>> THEN found ELSE Append(found, run))
    ELSE IF IsWordChar(text[i]) THEN MatchIdentifiers(text, i + 1, Append(run, text[i].c), found)
    ELSE MatchIdentifiers(text, i + 1, <<>>, IF run = <<>> THEN found ELSE Append(found, run))

\* the keys of dataReferences, in insertion order
RECURSIVE Dedup(_, _, _)
Dedup(names, i, acc) ==
    IF i > Len(names) THEN acc
    ELSE Dedup(names, i + 1,
               IF \E j \in 1..Len(acc) : acc[j] = names[i] THEN acc ELSE Append(acc, names[i]))

\* processedData[varName][date], undefined for an id or a date without data
DataAt(processedData, varName, date) ==
    IF varName \in DOMAIN processedData /\ date \in DOMAIN processedData[varName]
    THEN processedData[varName][date] ELSE Undefined

StartsWith(text, i, name) ==
    /\ i + Len(name) - 1 <= Len(text)
    /\ \A j \in 1..Len(name) : text[i + j - 1] = Ch(name[j])

\* text.replace(new RegExp(varName, 'g'), `(${value})`)
RECURSIVE ReplaceAll(_, _, _, _)
ReplaceAll(text, i, name, value) ==
    IF i > Len(text) THEN <<>>
    ELSE IF StartsWith(text, i, name)
         THEN <<Ch("("), Lit(value), Ch(")")>> \o ReplaceAll(text, i + Len(name), name, value)
         ELSE <<text[i]>> \o ReplaceAll(text, i + 1, name, value)

\* text.split('/')
RECURSIVE SplitOnSlash(_, _, _, _)
SplitOnSlash(text, i, part, parts) ==
    IF i > Len(text) THEN Append(parts, part)
    ELSE IF text[i] = Ch("/") THEN SplitOnSlash(text, i + 1, <<>>, Append(parts, part))
    ELSE SplitOnSlash(text, i + 1, Append(part, text[i]), parts)

\* eval(text) of an arithmetic expression over number literals, + - * / and
\* parentheses, by precedence; Thrown for text that is no expression (a
\* SyntaxError), that calls a number or names an unknown identifier
Thrown == [ok |-> FALSE, v |-> Null, pos |-> 0]
Parsed(v, pos) == [ok |-> TRUE, v |-> v, pos |-> pos]

IsSpace(x) == x = Ch(" ")
RECURSIVE DropSpaces(_)
DropSpaces(text) ==
    IF text = <<>> THEN <<>>
    ELSE (IF IsSpace(text[1]) THEN <<>> ELSE <<text[1]>>) \o DropSpaces(Tail(text))

TokAt(toks, pos) == IF pos <= Len(toks) THEN toks[pos].c ELSE "end"

RECURSIVE ParseExpr(_, _)
RECURSIVE ParseTerm(_, _)
RECURSIVE ParsePrimary(_, _)
RECURSIVE ExprTail(_, _)
RECURSIVE TermTail(_, _)

ParsePrimary(toks, pos) ==
    IF TokAt(toks, pos) = "#" THEN Parsed(toks[pos].v, pos + 1)
    ELSE IF TokAt(toks, pos) = "("
         THEN LET e == ParseExpr(toks, pos + 1)
              IN  IF e.ok /\ TokAt(toks, e.pos) = ")" THEN Parsed(e.v, e.pos + 1) ELSE Thrown
    ELSE Thrown

TermTail(toks, left) ==
    IF TokAt(toks, left.pos) \in {"*", "/"}
    THEN LET right == ParsePrimary(toks, left.pos + 1)
         IN  IF ~right.ok THEN Thrown
             ELSE TermTail(toks, Parsed(IF toks[left.pos].c = "*"
                                        THEN JsMul(left.v, right.v)
                                        ELSE JsDiv(left.v, right.v), right.pos))
    ELSE left

ParseTerm(toks, pos) ==
    LET first == ParsePrimary(toks, pos)
    IN  IF first.ok THEN TermTail(toks, first) ELSE Thrown

ExprTail(toks, left) ==
    IF TokAt(toks, left.pos) \in {"+", "-"}
    THEN LET right == ParseTerm(toks, left.pos + 1)
         IN  IF ~right.ok THEN Thrown
             ELSE ExprTail(toks, Parsed(IF toks[left.pos].c = "+"
                                        THEN JsAdd(left.v, right.v)
                                        ELSE JsSub(left.v, right.v), right.pos))
    ELSE left

ParseExpr(toks, pos) ==
    LET first == ParseTerm(toks, pos)
    IN  IF first.ok THEN ExprTail(toks, first) ELSE Thrown

\* eval of the empty text is undefined
Eval(text) ==
    LET toks == DropSpaces(text)
    IN  IF toks = <<>> THEN Parsed(Undefined, 1)
        ELSE LET e == ParseExpr(toks, 1)
             IN  IF e.ok /\ e.pos = Len(toks) + 1 THEN e ELSE Thrown

\* isNaN(x) and isFinite(x) of any value (undefined converts to NaN)
JsIsNaN(v) == v.k \in {"nan", "undef"}
JsIsFinite(v) == v.k \in {"num", "null"}

\* lines 104-111: the loop over dataReferences; absent when a value is
\* undefined, null or NaN, else the formula with every value substituted
RECURSIVE Substitute(_, _, _, _, _)
Substitute(names, i, processedData, date, text) ==
    IF i > Len(names) THEN [present |-> TRUE, text |-> text]
    ELSE LET value == DataAt(processedData, names[i], date)
         IN  IF value = Undefined \/ value = Null \/ JsIsNaN(value)
             THEN [present |-> FALSE, text |-> text]
             ELSE Substitute(names, i + 1, processedData, date,
                             ReplaceAll(text, 1, names[i], value))

\* lines 114-127: the check of the divisor
DivisorAccepted(executableFormula) ==
    IF \E i \in 1..Len(executableFormula) : executableFormula[i] = Ch("/")
    THEN LET parts == SplitOnSlash(executableFormula, 1, <<>>, <<>>)
         IN  IF Len(parts) = 2
             THEN LET divisorValue == Eval(parts[2])
                  IN  /\ divisorValue.ok
                      /\ ~(divisorValue.v = Num(0) \/ JsIsNaN(divisorValue.v)
                             \/ ~JsIsFinite(divisorValue.v))
             ELSE TRUE
    ELSE TRUE

\* lines 129-134: the result when it is a finite number, null otherwise
GuardedResult(result) ==
    IF result.ok /\ ~JsIsNaN(result.v) /\ JsIsFinite(result.v) THEN result.v ELSE Null

\* the body of the loop over commonDates
DerivedValueAt(formula, names, processedData, date) ==
    LET s == Substitute(names, 1, processedData, date, formula)
    IN  IF s.present /\ DivisorAccepted(s.text) THEN GuardedResult(Eval(s.text)) ELSE Null

calculateDerivedMetric(formula, processedData, commonDates) ==
    LET names == Dedup(MatchIdentifiers(formula, 1, <<>>, <<>>), 1, <<>>)
    IN  [values |-> [i \in 1..Len(commonDates) |->
                        DerivedValueAt(formula, names, processedData, commonDates[i])],
         dates |-> commonDates]

\* -------------------------------------------------------------------- state
\* pc: where the running call stands; input: the arguments of the call;
\* output: what it returned or threw.  The locals of processFinancialData:
\* extractedRawMetrics, processedMetrics, priceDates, interpolatedMetrics.
VARIABLES pc, input, output,
          extractedRawMetrics, processedMetrics, priceDates, interpolatedMetrics,
          alphaVantageCache, latestAdded, lastUse,
          fetchedRawData, alphaVantageCalls,
          loadedTabs, lastTicker, lastApiKey,
          tickerInputTop, alphaVantageApiKeyTop, activeTab, plotDataStarts

locals == <<extractedRawMetrics, processedMetrics, priceDates, interpolatedMetrics>>
\* the module-level cache of fetchUtils.js; for each key the value last added
\* and not evicted since, and the keys in the order of their last use, the
\* oldest first (two histories of the calls, not program state)
cache == <<alphaVantageCache, latestAdded, lastUse>>
\* the locals of fetchFinancialData: the payload map it fills and the
\* requests that have not settled
fetcher == <<fetchedRawData, alphaVantageCalls>>
\* the module state of script.js and the fields of the page it reads:
\* loadedTabs, lastTicker, lastApiKey; the ticker and key inputs, the active
\* tab; and the number of plotData calls started for the raw tab since
\* loadedTabs was last reset (a history)
page == <<loadedTabs, lastTicker, lastApiKey,
          tickerInputTop, alphaVantageApiKeyTop, activeTab, plotDataStarts>>
vars == <<pc, input, output, locals, cache, fetcher, page>>

\* the locals before they are assigned
NoMetrics == [id \in MetricIds |-> Undef]
\* no key was ever cached
CacheEmpty ==
    /\ alphaVantageCache = <<>>
    /\ latestAdded = <<>>
    /\ lastUse = <<>>
\* no call of fetchFinancialData is running
FetcherIdle ==
    /\ fetchedRawData = <<>>
    /\ alphaVantageCalls = {}
\* The text of an input field: a word, typed in lower case or not, with or
\* without white space around it; the empty string is the empty word
\* without white space.
FieldText(word, lower, pad) == [word |-> word, lower |-> lower, pad |-> pad]
EmptyString == FieldText("", FALSE, FALSE)
\* script.js as loaded (lines 31-33), the inputs empty, the raw tab shown
\* (line 89)
PageAtLoad ==
    /\ loadedTabs = [raw |-> FALSE, recipes |-> FALSE]
    /\ lastTicker = EmptyString
    /\ lastApiKey = EmptyString
    /\ tickerInputTop = EmptyString
    /\ alphaVantageApiKeyTop = EmptyString
    /\ activeTab = "raw"
    /\ plotDataStarts = 0

LocalsUnset ==
    /\ extractedRawMetrics = NoMetrics
    /\ processedMetrics = NoMetrics
    /\ priceDates = <<>>
    /\ interpolatedMetrics = NoMetrics

RECURSIVE SeqsUpTo(_, _)
SeqsUpTo(S, n) ==
    IF n = 0 THEN {<<>>}
    ELSE LET shorter == SeqsUpTo(S, n - 1)
         IN  shorter \cup {Append(s, x) : s \in {q \in shorter : Len(q) = n - 1}, x \in S}

IsInjective(s) == \A i, j \in 1..Len(s) : s[i] = s[j] => i = j
IsAscending(s) == \A i, j \in 1..Len(s) : i < j => s[i] < s[j]

\* the ascending axes over the model's dates
Axes == {s \in SeqsUpTo(Dates, MaxDate) : IsAscending(s)}

\* ------------------------------------------- specification: calculateTTM
\* Inputs: every assignment of dates (repeats allowed, any order) to at most
\* MaxTTMLen points; the point at position i carries the value 2^(i-1), so
\* that a sum tells which points went into it.  A non-array input too.
RECURSIVE Pow2(_)
Pow2(n) == IF n = 0 THEN 1 ELSE 2 * Pow2(n - 1)

TTMInputs ==
    {Arr([i \in 1..Len(ds) |-> Pt(ds[i], Num(Pow2(i - 1)))]) : ds \in SeqsUpTo(Dates, MaxTTMLen)}
        \cup {Undef, Obj(<<Pt(1, Num(1))>>)}

InitTTM ==
    /\ pc = "call"
    /\ input \in TTMInputs
    /\ output = <<>>
    /\ LocalsUnset
    /\ CacheEmpty
    /\ FetcherIdle
    /\ PageAtLoad

CallTTM ==
    /\ pc = "call"
    /\ output' = calculateTTM(input)
    /\ pc' = "done"
    /\ UNCHANGED <<input, locals>>
    /\ UNCHANGED <<cache, fetcher, page>>

SpecTTM == InitTTM /\ [][CallTTM]_vars

\* the place of point i of s in the ascending (stable) order of s
Rank(s, i) ==
    Cardinality({j \in 1..Len(s) : s[j].date < s[i].date \/ (s[j].date = s[i].date /\ j < i)}) + 1

\* the point at place p of the ascending order of s
AtRank(s, p) == s[CHOOSE i \in 1..Len(s) : Rank(s, i) = p]

\* C3: calculateTTM returns an empty series for an input of fewer than 4
\* points or a non-array input; for n >= 4 points it returns n-3 points, and
\* point k has the date of the (k+3)-th point of the input in ascending date
\* order and the sum of the values of the k-th .. (k+3)-th points.
C3_TTM ==
    pc = "done" =>
        IF ~IsArray(input) \/ Len(input.pts) < 4
        THEN output = <<>>
        ELSE /\ Len(output) = Len(input.pts) - 3
             /\ \A k \in 1..Len(output) :
                   /\ output[k].date = AtRank(input.pts, k + 3).date
                   /\ output[k].value =
                         JsAdd(JsAdd(AtRank(input.pts, k).value, AtRank(input.pts, k + 1).value),
                               JsAdd(AtRank(input.pts, k + 2).value, AtRank(input.pts, k + 3).value))

\* an unsorted input of 5 points gave 2 sums
C3_Witness ==
    /\ pc = "done"
    /\ IsArray(input)
    /\ Len(input.pts) = 5
    /\ input.pts[1].date > input.pts[5].date
    /\ Len(output) = 2
    /\ output[1].value # output[2].value

\* ---------------------------------------- specification: interpolateData
\* Inputs: a source of at most MaxSourceLen points with unique dates in any
\* order, the point dated d carrying the value d or null; an ascending axis.
SourceValues(d) == {Num(d), Null}

RECURSIVE SourcesOver(_)
SourcesOver(ds) ==
    IF ds = <<>> THEN {<<>>}
    ELSE {<<Pt(ds[1], v)>> \o rest : v \in SourceValues(ds[1]), rest \in SourcesOver(Tail(ds))}

InterpSources ==
    UNION {SourcesOver(ds) : ds \in {s \in SeqsUpTo(Dates, MaxSourceLen) : IsInjective(s)}}

InitInterp ==
    /\ pc = "call"
    /\ \E s \in InterpSources, t \in Axes : input = [source |-> Arr(s), targets |-> t]
    /\ output = <<>>
    /\ LocalsUnset
    /\ CacheEmpty
    /\ FetcherIdle
    /\ PageAtLoad

CallInterp ==
    /\ pc = "call"
    /\ output' = interpolateData(input.source, input.targets)
    /\ pc' = "done"
    /\ UNCHANGED <<input, locals>>
    /\ UNCHANGED <<cache, fetcher, page>>

SpecInterp == InitInterp /\ [][CallInterp]_vars

\* the source points dated on or before t
OnOrBefore(src, t) == {p \in SeqSet(src) : p.date <= t}
\* the latest of them
Latest(src, t) == CHOOSE p \in OnOrBefore(src, t) : \A q \in OnOrBefore(src, t) : q.date <= p.date

\* C2: interpolateData returns one point per target date, in target order
\* and with the target's date, whose value is the value of the source point
\* with the greatest date <= the target date, or null when there is none.
C2_Interpolate ==
    pc = "done" =>
        /\ Len(output) = Len(input.targets)
        /\ \A i \in 1..Len(output) :
              /\ output[i].date = input.targets[i]
              /\ output[i].value =
                    IF OnOrBefore(input.source.pts, input.targets[i]) = {}
                    THEN Null
                    ELSE Latest(input.source.pts, input.targets[i]).value

\* an unsorted source, a target before every source point, one on a source
\* date and one forward-filled
C2_Witness ==
    /\ pc = "done"
    /\ Len(input.source.pts) >= 2
    /\ input.source.pts[1].date > input.source.pts[2].date
    /\ \E i, j, l \in 1..Len(output) :
          /\ output[i].value = Null
          /\ OnOrBefore(input.source.pts, input.targets[i]) = {}
          /\ output[j].value # Null
          /\ input.targets[j] \in DatesOf(input.source.pts)
          /\ output[l].value # Null
          /\ input.targets[l] \notin DatesOf(input.source.pts)

\* --------------------------------- specification: calculateDerivedMetric
\* A formula of the inputs is written from its expression tree, so that the
\* tree says what the text means: Par is a pair of parentheses of the text.
Id(name) == [t |-> "id", name |-> name]
Bin(op, l, r) == [t |-> "bin", op |-> op, l |-> l, r |-> r]
Par(e) == [t |-> "par", e |-> e]

RECURSIVE Render(_)
Render(e) ==
    IF e.t = "id" THEN [i \in 1..Len(e.name) |-> Ch(e.name[i])]
    ELSE IF e.t = "par" THEN <<Ch("(")>> \o Render(e.e) \o <<Ch(")")>>
    ELSE Render(e.l) \o <<Ch(" "), Ch(e.op), Ch(" ")>> \o Render(e.r)

RECURSIVE IdsOf(_)
IdsOf(e) ==
    IF e.t = "id" THEN {e.name}
    ELSE IF e.t = "par" THEN IdsOf(e.e)
    ELSE IdsOf(e.l) \cup IdsOf(e.r)

\* the divisions of a formula: the right operands of its "/"
RECURSIVE Divisors(_)
Divisors(e) ==
    IF e.t = "id" THEN <<>>
    ELSE IF e.t = "par" THEN Divisors(e.e)
    ELSE Divisors(e.l) \o (IF e.op = "/" THEN <<e.r>> ELSE <<>>) \o Divisors(e.r)

\* the value the tree denotes where env gives the value of each identifier
RECURSIVE Denotes(_, _)
Denotes(e, env) ==
    IF e.t = "id" THEN env[e.name]
    ELSE IF e.t = "par" THEN Denotes(e.e, env)
    ELSE LET l == Denotes(e.l, env)
             r == Denotes(e.r, env)
         IN  CASE e.op = "+" -> JsAdd(l, r)
               [] e.op = "-" -> JsSub(l, r)
               [] e.op = "*" -> JsMul(l, r)
               [] e.op = "/" -> JsDiv(l, r)

IdA == Id(<<"A">>)
IdB == Id(<<"B">>)
IdC == Id(<<"C">>)
IdAB == Id(<<"A", "B">>)
AOverB == Bin("/", IdA, IdB)

Formulas ==
    { AOverB,
      Bin("-", IdA, IdB),
      Bin("/", IdA, IdA),
      Bin("/", IdAB, IdA),
      Bin("/", IdA, IdAB),
      Bin("+", Bin("*", IdA, IdB), IdC),
      Bin("+", Bin("/", IdA, IdB), IdC),
      Bin("/", Par(Bin("+", IdA, IdB)), IdC),
      Bin("/", IdA, Par(Bin("-", IdB, IdC))),
      Bin("*", Par(Bin("/", IdA, IdB)), IdC),
      Bin("/", Bin("/", IdA, IdB), IdC),
      Bin("/", IdC, Par(Bin("/", IdA, IdB))) }

\* the values of an identifier on the first date (a negative one among
\* them), and the three fillings of the second date: no value, 2 everywhere,
\* 0 everywhere
FormulaValues == {Undefined, Null, NaN, Num(0), Num(2), Num(-2), Num(10), Inf(1)}
SecondDate == {Undefined, Num(2), Num(0)}
FormulaAxes == {<<1>>, <<1, 2>>, <<2, 1>>}

\* processedData has no entry for an identifier without any value
DataOf(first, second) ==
    LET named == {name \in DOMAIN first : ~(first[name] = Undefined /\ second = Undefined)}
    IN  [name \in named |-> (1 :> first[name]) @@ (2 :> second)]

FormulaInput(f, first, second, axis) ==
    [formula |-> Render(f), tree |-> f,
     processedData |-> DataOf(first, second), commonDates |-> axis]

InitFormula ==
    /\ pc = "call"
    /\ \E f \in Formulas :
          \E first \in [IdsOf(f) -> FormulaValues], second \in SecondDate, axis \in FormulaAxes :
             input = FormulaInput(f, first, second, axis)
    /\ output = <<>>
    /\ LocalsUnset
    /\ CacheEmpty
    /\ FetcherIdle
    /\ PageAtLoad

CallFormula ==
    /\ pc = "call"
    /\ output' = calculateDerivedMetric(input.formula, input.processedData, input.commonDates)
    /\ pc' = "done"
    /\ UNCHANGED <<input, locals>>
    /\ UNCHANGED <<cache, fetcher, page>>

SpecFormula == InitFormula /\ [][CallFormula]_vars

\* the value of each identifier of the input's formula on a date
EnvAt(date) == [name \in IdsOf(input.tree) |-> DataAt(input.processedData, name, date)]
IsAbsent(v) == v \in {Undefined, Null, NaN}
ZeroOrNonFinite(v) == v = Num(0) \/ v.k # "num"

\* C9: calculateDerivedMetric returns one value per target date, in target
\* order; the value is null when an identifier of the formula has a missing,
\* null or NaN value on the date, and when the divisor of a division of the
\* formula is zero or not finite on the date; for 'A / B' it is 5 where
\* A = 10 and B = 2 and null where B = 0; no value is Infinity or NaN.
C9_DerivedMetric ==
    pc = "done" =>
        /\ output.dates = input.commonDates
        /\ Len(output.values) = Len(input.commonDates)
        /\ \A i \in 1..Len(input.commonDates) :
              LET env == EnvAt(input.commonDates[i])
                  value == output.values[i]
                  divisors == Divisors(input.tree)
              IN  /\ value.k \in {"null", "num"}
                  /\ (\E name \in DOMAIN env : IsAbsent(env[name])) => value = Null
                  /\ ( /\ \A name \in DOMAIN env : ~IsAbsent(env[name])
                       /\ \E d \in 1..Len(divisors) :
                             ZeroOrNonFinite(Denotes(divisors[d], env)) ) => value = Null
                  /\ input.formula = Render(AOverB) =>
                        /\ (env[<<"A">>] = Num(10) /\ env[<<"B">>] = Num(2)) => value = Num(5)
                        /\ env[<<"B">>] = Num(0) => value = Null

\* ------------------------------------ specification: processFinancialData
\* The arguments of a run: the payload of every source function, the FX
\* rate and the date window.  A record of a fundamentals container has its
\* date key and the fields the catalog reads from that source; an entry of
\* the price container has its date key ("key") and the close.
FxRates == {Num(1), Num(2)}
Windows == {<<1, MaxDate>>, <<2, MaxDate - 1>>}

NotDocs == {Missing, ErrorSentinel, NoContainer}
\* the date texts of the records of a fundamentals container: the first two
\* dates, the last date and a text that is no date
RecordDates == {DateStr(1), DateStr(2), DateStr(MaxDate), NoneStr}

PriceEntry(d, close) == ("key" :> DateStr(d)) @@ ("5. adjusted close" :> close)
EarningsRec(date, eps) == (DATE_KEY :> date) @@ ("reportedEPS" :> eps)
IncomeRec(date, revenue) == (DATE_KEY :> date) @@ ("totalRevenue" :> revenue)
BalanceRec(date, shares) == (DATE_KEY :> date) @@ ("commonStockSharesOutstanding" :> shares)
CashFlowRec(date, ocf, capex, div) ==
    (DATE_KEY :> date) @@ ("operatingCashflow" :> ocf)
        @@ ("capitalExpenditures" :> capex) @@ ("dividendPayout" :> div)

\* the entries of a price container over the dates of S, in ascending key
\* order, with the closes of f
PriceItems(S, f) == LET ds == SortAsc(S) IN [i \in 1..Len(ds) |-> PriceEntry(ds[i], f[ds[i]])]

PriceDocs ==
    {Doc(PriceItems(S, f)) : S \in SUBSET Dates, f \in [Dates -> {NumStr(2), NumStr(0), JunkStr}]}

\* quarterly earnings: at most MaxDate records with different dates in any
\* order, all with the same EPS text
EarningsDocs ==
    {Doc([i \in 1..Len(ds) |-> EarningsRec(DateStr(ds[i]), eps)]) :
        ds \in {q \in SeqsUpTo(Dates, MaxDate) : IsInjective(q)}, eps \in {NumStr(1), NumStr(0)}}

IncomeDocs ==
    {Doc(recs) : recs \in SeqsUpTo({IncomeRec(d, v) : d \in RecordDates,
                                                      v \in {NumStr(6), JunkStr}}, MaxRecs)}

BalanceDocs ==
    {Doc(recs) : recs \in SeqsUpTo({BalanceRec(d, v) : d \in RecordDates,
                                                       v \in {NumStr(2), NumStr(0), JunkStr}},
                                   MaxRecs)}

\* cash flow: no record or one
CashFlowDocs ==
    {Doc(<<>>)} \cup
    {Doc(<<CashFlowRec(d, ocf, capex, div)>>) :
        d \in RecordDates,
        ocf \in {NumStr(4), JunkStr},
        capex \in {NumStr(4), NumStr(1)},
        div \in {NumStr(2), InfStr}}

\* every payload the model draws for a source
Payloads(fn) ==
    NotDocs \cup
    (CASE fn = PRICE_FN -> PriceDocs
       [] fn = "EARNINGS" -> EarningsDocs
       [] fn = "INCOME_STATEMENT" -> IncomeDocs
       [] fn = "BALANCE_SHEET" -> BalanceDocs
       [] fn = "CASH_FLOW" -> CashFlowDocs)

\* a well-formed response of each source
Baseline(fn) ==
    CASE fn = PRICE_FN -> Doc([d \in Dates |-> PriceEntry(d, NumStr(2))])
      [] fn = "EARNINGS" ->
            Doc([i \in 1..MaxDate |-> EarningsRec(DateStr(MaxDate + 1 - i), NumStr(1))])
      [] fn = "INCOME_STATEMENT" -> Doc(<<IncomeRec(DateStr(2), NumStr(6))>>)
      [] fn = "BALANCE_SHEET" -> Doc(<<BalanceRec(DateStr(1), NumStr(2))>>)
      [] fn = "CASH_FLOW" ->
            Doc(<<CashFlowRec(DateStr(2), NumStr(4), NumStr(1), NumStr(2))>>)

\* a second document of each source
Alternate(fn) ==
    CASE fn = PRICE_FN -> Doc(<<PriceEntry(2, NumStr(2)), PriceEntry(MaxDate, JunkStr)>>)
      [] fn = "EARNINGS" -> Doc(<<EarningsRec(DateStr(1), NumStr(1))>>)
      [] fn = "INCOME_STATEMENT" -> Doc(<<IncomeRec(DateStr(2), JunkStr)>>)
      [] fn = "BALANCE_SHEET" -> Doc(<<BalanceRec(DateStr(2), NumStr(0))>>)
      [] fn = "CASH_FLOW" ->
            Doc(<<CashFlowRec(DateStr(1), NumStr(4), NumStr(4), InfStr)>>)

BaselineData == [fn \in Sources |-> Baseline(fn)]

\* the payloads drawn jointly for all sources
Shapes == {"missing", "error", "nocontainer", "empty", "baseline", "alternate"}

Shaped(fn, shape) ==
    CASE shape = "missing" -> Missing
      [] shape = "error" -> ErrorSentinel
      [] shape = "nocontainer" -> NoContainer
      [] shape = "empty" -> Doc(<<>>)
      [] shape = "baseline" -> Baseline(fn)
      [] shape = "alternate" -> Alternate(fn)

PipelineInput(rawData, fxRateUsed, window) ==
    [rawData |-> rawData, fxRateUsed |-> fxRateUsed,
     startDate |-> window[1], endDate |-> window[2]]

NoOutput == [kind |-> "none", metrics |-> NoMetrics]

\* The arguments of a run: every combination of shapes over the sources
\* with the whole window and an FX rate of 2, and every payload of one source
\* beside well-formed payloads of the others with every rate and window
Init ==
    /\ pc = "EXTRACT_RAW"
    /\ \/ \E c \in [Sources -> Shapes] :
             input = PipelineInput([fn \in Sources |-> Shaped(fn, c[fn])],
                                   Num(2), <<1, MaxDate>>)
       \/ \E fx \in FxRates, w \in Windows : \E fn \in Sources : \E p \in Payloads(fn) :
             input = PipelineInput([BaselineData EXCEPT ![fn] = p], fx, w)
    /\ output = NoOutput
    /\ LocalsUnset
    /\ CacheEmpty
    /\ FetcherIdle
    /\ PageAtLoad

\* the extraction as it would be with extractedRawMetrics kept from one
\* call to the next: a skipped descriptor keeps its former entry
ExtractRawKeepingEntries ==
    /\ pc = "EXTRACT_RAW"
    /\ extractedRawMetrics' =
          LET fresh == ExtractRawMetrics(input.rawData, input.fxRateUsed,
                                         input.startDate, input.endDate)
          IN  [id \in MetricIds |->
                  IF fresh[id] = Undef THEN extractedRawMetrics[id] ELSE fresh[id]]
    /\ processedMetrics' = extractedRawMetrics'
    /\ pc' = "AGGREGATE_TTM"
    /\ UNCHANGED <<input, output, priceDates, interpolatedMetrics>>
    /\ UNCHANGED <<cache, fetcher, page>>

\* lines 148-189: the loop over the raw descriptors, then the copy
ExtractRaw ==
    /\ pc = "EXTRACT_RAW"
    /\ extractedRawMetrics' =
          ExtractRawMetrics(input.rawData, input.fxRateUsed, input.startDate, input.endDate)
    /\ processedMetrics' = extractedRawMetrics'
    /\ pc' = "AGGREGATE_TTM"
    /\ UNCHANGED <<input, output, priceDates, interpolatedMetrics>>
    /\ UNCHANGED <<cache, fetcher, page>>

\* lines 191-194
AggregateTTM ==
    /\ pc = "AGGREGATE_TTM"
    /\ processedMetrics' = AggregateTTMStage(processedMetrics)
    /\ pc' = "COMBINE_CUSTOM"
    /\ UNCHANGED <<input, output, extractedRawMetrics, priceDates, interpolatedMetrics>>
    /\ UNCHANGED <<cache, fetcher, page>>

\* lines 196-243
CombineCustom ==
    /\ pc = "COMBINE_CUSTOM"
    /\ processedMetrics' = CombineCustomStage(processedMetrics)
    /\ pc' = "INTERPOLATE"
    /\ UNCHANGED <<input, output, extractedRawMetrics, priceDates, interpolatedMetrics>>
    /\ UNCHANGED <<cache, fetcher, page>>

\* a run that would go on to the ratios with an empty price calendar
ProceedWithoutPriceData ==
    /\ pc = "INTERPOLATE"
    /\ PriceDatesOf(processedMetrics) = <<>>
    /\ priceDates' = <<>>
    /\ interpolatedMetrics' = InterpolateStage(processedMetrics, priceDates')
    /\ pc' = "EVALUATE_RATIOS"
    /\ UNCHANGED <<input, output, extractedRawMetrics, processedMetrics>>
    /\ UNCHANGED <<cache, fetcher, page>>

\* lines 246-247: no price date, the run throws
ThrowNoPriceData ==
    /\ pc = "INTERPOLATE"
    /\ PriceDatesOf(processedMetrics) = <<>>
    /\ priceDates' = <<>>
    /\ output' = [kind |-> "thrown", metrics |-> NoMetrics]
    /\ pc' = "FAILED"
    /\ UNCHANGED <<input, extractedRawMetrics, processedMetrics, interpolatedMetrics>>
    /\ UNCHANGED <<cache, fetcher, page>>

\* the interpolation as it would be with the source arrays sorted in place
InterpolateSortingInPlace ==
    /\ pc = "INTERPOLATE"
    /\ PriceDatesOf(processedMetrics) # <<>>
    /\ priceDates' = PriceDatesOf(processedMetrics)
    /\ interpolatedMetrics' = InterpolateStage(processedMetrics, priceDates')
    /\ processedMetrics' =
          [id \in MetricIds |->
              IF id \in metricsToInterpolate /\ id # "price" /\ IsArray(processedMetrics[id])
              THEN Arr(SortByDate(processedMetrics[id].pts))
              ELSE processedMetrics[id]]
    /\ pc' = "EVALUATE_RATIOS"
    /\ UNCHANGED <<input, output, extractedRawMetrics>>
    /\ UNCHANGED <<cache, fetcher, page>>

\* lines 246-259
Interpolate ==
    /\ pc = "INTERPOLATE"
    /\ PriceDatesOf(processedMetrics) # <<>>
    /\ priceDates' = PriceDatesOf(processedMetrics)
    /\ interpolatedMetrics' = InterpolateStage(processedMetrics, priceDates')
    /\ pc' = "EVALUATE_RATIOS"
    /\ UNCHANGED <<input, output, extractedRawMetrics, processedMetrics>>
    /\ UNCHANGED <<cache, fetcher, page>>

\* lines 261-277
EvaluateRatios ==
    /\ pc = "EVALUATE_RATIOS"
    /\ interpolatedMetrics' = EvaluateRatiosStage(interpolatedMetrics, priceDates)
    /\ pc' = "RETURN"
    /\ UNCHANGED <<input, output, extractedRawMetrics, processedMetrics, priceDates>>
    /\ UNCHANGED <<cache, fetcher, page>>

\* line 279
Return ==
    /\ pc = "RETURN"
    /\ output' = [kind |-> "returned", metrics |-> interpolatedMetrics]
    /\ pc' = "DONE"
    /\ UNCHANGED <<input, locals>>
    /\ UNCHANGED <<cache, fetcher, page>>

Next ==
    \/ ExtractRaw
    \/ AggregateTTM
    \/ CombineCustom
    \/ ThrowNoPriceData
    \/ Interpolate
    \/ EvaluateRatios
    \/ Return

Spec == Init /\ [][Next]_vars

\* ----------------------------------------------- claims on the pipeline
RawDescs == {m \in Catalog : IsRaw(m)}
Extracted == pc # "EXTRACT_RAW"
Combined == pc \in {"INTERPOLATE", "EVALUATE_RATIOS", "RETURN", "DONE", "FAILED"}
RatiosDone == pc \in {"RETURN", "DONE"}
Finished == pc \in {"DONE", "FAILED"}

\* the payload of a descriptor's source has the descriptor's container
SourcePresent(mc) ==
    /\ input.rawData[mc.source_function].kind = "doc"
    /\ input.rawData[mc.source_function].hasContainer
RecordsOf(mc) == input.rawData[mc.source_function].items

\* the date text of a record: its key in a time series, its date key else
DateTextOf(mc, item) ==
    IF mc.isTimeSeries THEN item["key"]
    ELSE IF DATE_KEY \in DOMAIN item THEN item[DATE_KEY] ELSE UndefinedProp
FieldTextOf(mc, item) == IF mc.field \in DOMAIN item THEN item[mc.field] ELSE UndefinedProp
SpellsNumber(x) == x.t = "str" /\ x.s \in {"num", "inf"}
NumberSpelled(x) == IF x.s = "inf" THEN Inf(1) ELSE Num(x.n)

\* the record has a valid date within [startDate, endDate] and a numeric field
IsKept(mc, item) ==
    /\ DateTextOf(mc, item).t = "str"
    /\ DateTextOf(mc, item).s = "date"
    /\ input.startDate <= DateTextOf(mc, item).n
    /\ DateTextOf(mc, item).n <= input.endDate
    /\ SpellsNumber(FieldTextOf(mc, item))

\* the records of the container that IsKept keeps, in container order
RECURSIVE KeptFrom(_, _, _)
KeptFrom(mc, items, i) ==
    IF i > Len(items) THEN <<>>
    ELSE (IF IsKept(mc, items[i]) THEN <<items[i]>> ELSE <<>>) \o KeptFrom(mc, items, i + 1)
KeptRecords(mc) == KeptFrom(mc, RecordsOf(mc), 1)

\* the dates of the price entries that are in the window and numeric
PriceDatesInWindow ==
    IF SourcePresent(Desc("price"))
    THEN {DateTextOf(Desc("price"), it).n :
             it \in {x \in SeqSet(RecordsOf(Desc("price"))) : IsKept(Desc("price"), x)}}
    ELSE {}

\* C1: a run throws 'No price data' if and only if the price series has no
\* date in the window, whatever the payloads of the other sources are: every
\* run ends, one with a price date returns a result map, one without throws.
C1_ThrowsIffNoPriceDate ==
    /\ pc \in {"EXTRACT_RAW", "AGGREGATE_TTM", "COMBINE_CUSTOM", "INTERPOLATE",
               "EVALUATE_RATIOS", "RETURN", "DONE", "FAILED"}
    /\ Finished => (output.kind = "thrown" <=> PriceDatesInWindow = {})
    /\ Finished => (output.kind = "returned" <=> PriceDatesInWindow # {})
    /\ pc = "DONE" <=> output.kind = "returned"
    /\ pc = "FAILED" <=> output.kind = "thrown"
    /\ pc \in {"EVALUATE_RATIOS", "RETURN"} => PriceDatesInWindow # {}

\* a run returned with one source missing, one an error sentinel, one
\* without its container and one whose only record is non-numeric
C1_Witness ==
    /\ pc = "DONE"
    /\ output.kind = "returned"
    /\ \E a, b, c, d \in Sources \ {PRICE_FN} :
          /\ input.rawData[a].kind = "missing"
          /\ input.rawData[b].kind = "error"
          /\ input.rawData[c].kind = "doc" /\ ~input.rawData[c].hasContainer
          /\ input.rawData[d].kind = "doc" /\ input.rawData[d].hasContainer
          /\ Len(input.rawData[d].items) = 1
          /\ \E f \in DOMAIN input.rawData[d].items[1] :
                input.rawData[d].items[1][f] = JunkStr

\* C4 (amended): the value of a fundamental record is multiplied by fxRate
\* if and only if fx_adjust is not false (true or not set) and the source is
\* not the price function; for fx_adjust false, the price source and every
\* time series the extracted value is the parsed raw value whatever fxRate.
C4_FxUnlessFalse ==
    Extracted =>
        \A mc \in RawDescs : SourcePresent(mc) =>
            /\ Len(extractedRawMetrics[mc.id].pts) = Len(KeptRecords(mc))
            /\ \A i \in 1..Len(KeptRecords(mc)) :
                  LET parsed == NumberSpelled(FieldTextOf(mc, KeptRecords(mc)[i]))
                      value == extractedRawMetrics[mc.id].pts[i].value
                  IN  IF mc.fx_adjust # "false" /\ mc.source_function # PRICE_FN
                         /\ ~mc.isTimeSeries
                      THEN value = JsMul(parsed, input.fxRateUsed)
                      ELSE value = parsed

\* C4 as claimed: multiplied if and only if fx_adjust is true (and not the
\* price series); not set counts as false
C4_FxOnlyWhenTrue ==
    Extracted =>
        \A mc \in RawDescs : SourcePresent(mc) =>
            /\ Len(extractedRawMetrics[mc.id].pts) = Len(KeptRecords(mc))
            /\ \A i \in 1..Len(KeptRecords(mc)) :
                  LET parsed == NumberSpelled(FieldTextOf(mc, KeptRecords(mc)[i]))
                      value == extractedRawMetrics[mc.id].pts[i].value
                  IN  IF mc.fx_adjust = "true" /\ mc.source_function # PRICE_FN
                         /\ ~mc.isTimeSeries
                      THEN value = JsMul(parsed, input.fxRateUsed)
                      ELSE value = parsed

\* with fxRate 2: a record with fx_adjust true and one with fx_adjust not
\* set were doubled, one with fx_adjust false and a price entry were not
C4_Witness ==
    /\ Extracted
    /\ input.fxRateUsed = Num(2)
    /\ \E p \in SeqSet(extractedRawMetrics["operatingCashflow"].pts) : p.value = Num(8)
    /\ \E p \in SeqSet(extractedRawMetrics["capitalExpenditures"].pts) : p.value = Num(2)
    /\ \E p \in SeqSet(extractedRawMetrics["commonSharesOutstanding"].pts) : p.value = Num(2)
    /\ \E p \in SeqSet(extractedRawMetrics["price"].pts) : p.value = Num(2)
    /\ \E it \in SeqSet(RecordsOf(Desc("capitalExpenditures"))) :
          IsKept(Desc("capitalExpenditures"), it) /\ it["capitalExpenditures"] = NumStr(1)

\* C5: for a raw descriptor whose source is present, the extracted series
\* has a point for a record (or date key) exactly when the record has a
\* valid date d with startDate <= d <= endDate and a field that parses to a
\* number: the points are the kept records, in order and with their dates;
\* any other record is dropped alone.
C5_PointIffInWindowAndNumeric ==
    Extracted =>
        \A mc \in RawDescs : SourcePresent(mc) =>
            /\ Len(extractedRawMetrics[mc.id].pts) = Len(KeptRecords(mc))
            /\ \A i \in 1..Len(KeptRecords(mc)) :
                  extractedRawMetrics[mc.id].pts[i].date =
                      DateTextOf(mc, KeptRecords(mc)[i]).n

\* a record dated startDate was kept beside one dropped for its field or
\* date, and a price entry dated endDate was kept beside one before and one
\* after the window
C5_Witness ==
    /\ Extracted
    /\ input.startDate > 1
    /\ \E mc \in RawDescs :
          /\ SourcePresent(mc) /\ ~mc.isTimeSeries
          /\ Len(RecordsOf(mc)) = 2
          /\ Len(extractedRawMetrics[mc.id].pts) = 1
          /\ extractedRawMetrics[mc.id].pts[1].date = input.startDate
          /\ \E it \in SeqSet(RecordsOf(mc)) :
                DateTextOf(mc, it) = NoneStr \/ FieldTextOf(mc, it) = JunkStr
    /\ input.endDate \in DatesOf(extractedRawMetrics["price"].pts)
    /\ \E it \in SeqSet(RecordsOf(Desc("price"))) : it["key"].n < input.startDate
    /\ \E it \in SeqSet(RecordsOf(Desc("price"))) : it["key"].n > input.endDate

\* the source of a descriptor is missing, an error sentinel, or lacks the
\* container
Unavailable(mc) ==
    \/ input.rawData[mc.source_function].kind \in {"missing", "error"}
    \/ ~input.rawData[mc.source_function].hasContainer

\* C6 (amended): a raw descriptor whose source is missing, an error sentinel
\* or without the container has no entry under its id in the extraction
\* result (the id is absent, not mapped to an empty series); every other raw
\* metric has its entry, the same as with all other sources well-formed.
C6_UnavailableIsAbsent ==
    Extracted =>
        \A mc \in RawDescs :
            IF Unavailable(mc)
            THEN extractedRawMetrics[mc.id] = Undef
            ELSE /\ extractedRawMetrics[mc.id].kind = (IF mc.isTimeSeries THEN "map" ELSE "array")
                 /\ extractedRawMetrics[mc.id] =
                       ExtractOne(mc, [BaselineData EXCEPT ![mc.source_function] =
                                           input.rawData[mc.source_function]],
                                  input.fxRateUsed, input.startDate, input.endDate)

\* C6 as claimed: such a descriptor has an empty series under its id
C6_UnavailableIsEmptySeries ==
    Extracted =>
        \A mc \in RawDescs :
            Unavailable(mc) =>
                /\ extractedRawMetrics[mc.id].kind \in {"array", "map"}
                /\ extractedRawMetrics[mc.id].pts = <<>>

\* one source missing, one an error sentinel, one without container, and a
\* metric of another source extracted with a point
C6_Witness ==
    /\ Extracted
    /\ \E a, b, c \in Sources :
          /\ input.rawData[a].kind = "missing"
          /\ input.rawData[b].kind = "error"
          /\ input.rawData[c].kind = "doc" /\ ~input.rawData[c].hasContainer
    /\ \E mc \in RawDescs : ~Unavailable(mc) /\ extractedRawMetrics[mc.id].pts # <<>>

\* the value of a series at a date: that of its last point with the date,
\* undefined when it has none
LastAt(pts, date) ==
    pts[CHOOSE i \in 1..Len(pts) :
            /\ pts[i].date = date
            /\ \A j \in (i + 1)..Len(pts) : pts[j].date # date]
ValueAt(series, date) ==
    IF date \in DatesOf(series.pts) THEN LastAt(series.pts, date).value ELSE Undefined

RatioDescs == {m \in Catalog : m.type = "derived_ratio"}
OperandsExist(mc) ==
    /\ interpolatedMetrics[mc.num].kind # "undef"
    /\ interpolatedMetrics[mc.den].kind # "undef"

\* C7: for every derived_ratio whose two operands exist the ratio stage
\* emits one point per price date, in ascending price-date order; the value
\* is numerator/denominator when both operand values at the date are
\* non-null and the denominator is not 0, and null otherwise: never
\* non-null where the denominator is exactly 0.
C7_RatioPerPriceDate ==
    RatiosDone =>
        \A mc \in RatioDescs : OperandsExist(mc) =>
            LET r == interpolatedMetrics[mc.id].pts
            IN  /\ interpolatedMetrics[mc.id].kind = "array"
                /\ Len(r) = Cardinality(PriceDatesInWindow)
                /\ {r[i].date : i \in 1..Len(r)} = PriceDatesInWindow
                /\ \A i, j \in 1..Len(r) : i < j => r[i].date < r[j].date
                /\ \A i \in 1..Len(r) :
                      LET num == ValueAt(interpolatedMetrics[mc.num], r[i].date)
                          den == ValueAt(interpolatedMetrics[mc.den], r[i].date)
                      IN  /\ (num \notin {Null, Undefined} /\ den \notin {Null, Undefined}
                                 /\ den # Num(0))
                                => r[i].value = JsDiv(num, den)
                          /\ (num \in {Null, Undefined} \/ den \in {Null, Undefined}
                                 \/ den = Num(0))
                                => r[i].value = Null

\* over two price dates or more, one ratio is null where its denominator is
\* exactly 0 and its numerator is not null, and one ratio has a number at a
\* date and null at another
C7_Witness ==
    /\ RatiosDone
    /\ Len(priceDates) >= 2
    /\ \E mc \in RatioDescs : \E d \in PriceDatesInWindow :
          /\ OperandsExist(mc)
          /\ ValueAt(interpolatedMetrics[mc.den], d) = Num(0)
          /\ ValueAt(interpolatedMetrics[mc.num], d).k = "num"
          /\ ValueAt(interpolatedMetrics[mc.id], d) = Null
    /\ \E mc \in RatioDescs : \E d, e \in PriceDatesInWindow :
          /\ OperandsExist(mc)
          /\ ValueAt(interpolatedMetrics[mc.id], d).k = "num"
          /\ ValueAt(interpolatedMetrics[mc.id], e) = Null

\* C8: no point emitted by the ratio stage is Infinity or NaN: every value
\* is null or a finite number.
C8_RatioNeverNonFinite ==
    RatiosDone =>
        \A mc \in RatioDescs :
            \A p \in SeqSet(interpolatedMetrics[mc.id].pts) : p.value.k \in {"null", "num"}

CombinerCalls ==
    { <<"rps", "annualRevenue">>, <<"fcf", "operatingCashflow">>,
      <<"fcfPerShare", "fcf">>, <<"ttmDividends", "dividendPayout">> }

\* C10: every date of a series produced by the custom combiner is the date
\* of a point of its first operand.
C10_DatesOfFirstOperand ==
    Combined =>
        \A c \in CombinerCalls :
            DatesOf(processedMetrics[c[1]].pts) \subseteq DatesOf(processedMetrics[c[2]].pts)

\* the derived_custom descriptors, and the operation the formula of each
\* spells (a formula with ' - ' subtracts, one with ' / ' divides)
CustomDescs == {m \in Catalog : m.type = "derived_custom"}
FormulaOperation(mc) == IF mc.id = "fcf" THEN "subtract" ELSE "divide"
Returned == pc = "DONE" /\ output.kind = "returned"

\* the two operands of a derived_custom descriptor were extracted with a
\* point in a common calendar year, and no zero divisor
OperandsShareYear(mc) ==
    LET a == extractedRawMetrics[mc.num]
        b == extractedRawMetrics[mc.den]
    IN  /\ IsArray(a) /\ IsArray(b)
        /\ \E p \in SeqSet(a.pts), q \in SeqSet(b.pts) : Year(p.date) = Year(q.date)
        /\ FormulaOperation(mc) = "divide" => \A q \in SeqSet(b.pts) : q.value # Num(0)

\* C11: for every derived_custom descriptor whose two operands were
\* extracted with a point in a common calendar year (and a non-zero second
\* operand for a division) the returned result has an entry under the
\* descriptor's id, and every derived_ratio that has it as an operand is
\* produced too.
C11_EveryCustomDescriptorComputed ==
    Returned =>
        \A mc \in CustomDescs : OperandsShareYear(mc) =>
            /\ output.metrics[mc.id].kind # "undef"
            /\ \A r \in RatioDescs :
                  (r.num = mc.id \/ r.den = mc.id) => output.metrics[r.id].kind # "undef"

PlottableIds == {m.id : m \in {x \in Catalog : x.is_plottable}}

\* C12: in every returned result each plottable metric that is present has
\* exactly the price calendar as its dates: the ascending list of the
\* extracted price dates for a sequence of points, the same set for a map.
C12_PlottableOnPriceCalendar ==
    Returned =>
        \A id \in PlottableIds :
            LET series == output.metrics[id]
            IN  series.kind # "undef" =>
                   /\ DatesOf(series.pts) = PriceDatesInWindow
                   /\ Len(series.pts) = Cardinality(PriceDatesInWindow)
                   /\ series.kind = "array" =>
                         \A i, j \in 1..Len(series.pts) :
                            i < j => series.pts[i].date < series.pts[j].date

\* over three price dates a plottable fundamental extracted with one point
\* and a plottable combined metric are both on the price calendar
C12_Witness ==
    /\ Returned
    /\ Cardinality(PriceDatesInWindow) >= 3
    /\ Len(extractedRawMetrics["operatingCashflow"].pts) = 1
    /\ Len(output.metrics["operatingCashflow"].pts) >= 3
    /\ output.metrics["fcf"].kind = "array"
    /\ output.metrics["dividendYieldTTM"].kind = "array"

\* ------------------------------------- specification: the response cache
\* alphaVantageCache is a Map: its entries in insertion order.
\* Map.delete
DeleteEntry(entries, key) == SelectSeq(entries, LAMBDA e : e.key # key)

addToCacheNoEviction(entries, key, value) == SetEntry(DeleteEntry(entries, key), key, value)

\* addToCache(key, value), as the cache it leaves
addToCache(entries, key, value) ==
    LET removed == IF HasKey(entries, key) THEN DeleteEntry(entries, key) ELSE entries
        room == IF Len(removed) >= CACHE_MAX_SIZE
                THEN DeleteEntry(removed, removed[1].key)
                ELSE removed
    IN  SetEntry(room, key, value)

NOT_FOUND == "undefined"

\* getFromCache(key) as it would be without the refresh of lines 32-33
getFromCacheNoRefresh(entries, key) ==
    IF HasKey(entries, key)
    THEN [value |-> GetEntry(entries, key), entries |-> entries]
    ELSE [value |-> NOT_FOUND, entries |-> entries]

\* getFromCache(key): the value it returns and the cache it leaves
getFromCache(entries, key) ==
    IF HasKey(entries, key)
    THEN [value |-> GetEntry(entries, key),
          entries |-> SetEntry(DeleteEntry(entries, key), key, GetEntry(entries, key))]
    ELSE [value |-> NOT_FOUND, entries |-> entries]

\* the history of uses after a use of the key: the key is the latest
UsedNow(uses, key) == Append(SelectSeq(uses, LAMBDA k : k # key), key)

CacheKeys == 1..MaxCacheKeys
CacheValues == {"u", "v"}
KeysOf(entries) == {entries[i].key : i \in 1..Len(entries)}
NoCall == [op |-> "none", key |-> 0, value |-> NOT_FOUND]

InitCache ==
    /\ pc = "CACHE"
    /\ input = NoCall
    /\ output = NOT_FOUND
    /\ LocalsUnset
    /\ CacheEmpty
    /\ FetcherIdle
    /\ PageAtLoad

\* a call of addToCache; the history forgets the keys the call evicted
AddToCache ==
    /\ pc = "CACHE"
    /\ \E key \in CacheKeys, value \in CacheValues :
          /\ input' = [op |-> "addToCache", key |-> key, value |-> value]
          /\ alphaVantageCache' = addToCache(alphaVantageCache, key, value)
          /\ latestAdded' =
                SetEntry(SelectSeq(latestAdded,
                                   LAMBDA e : e.key \in KeysOf(alphaVantageCache')
                                                \/ e.key \notin KeysOf(alphaVantageCache)),
                         key, value)
          /\ lastUse' = UsedNow(lastUse, key)
    /\ output' = NOT_FOUND
    /\ UNCHANGED <<pc, locals, fetcher, page>>

\* a call of getFromCache
GetFromCache ==
    /\ pc = "CACHE"
    /\ \E key \in CacheKeys :
          /\ input' = [op |-> "getFromCache", key |-> key, value |-> NOT_FOUND]
          /\ output' = getFromCache(alphaVantageCache, key).value
          /\ alphaVantageCache' = getFromCache(alphaVantageCache, key).entries
          /\ lastUse' = IF HasKey(alphaVantageCache, key) THEN UsedNow(lastUse, key)
                         ELSE lastUse
    /\ UNCHANGED <<pc, locals, latestAdded, fetcher, page>>

NextCache == AddToCache \/ GetFromCache

SpecCache == InitCache /\ [][NextCache]_vars

\* C17: after any sequence of addToCache and getFromCache calls the cache
\* holds at most CACHE_MAX_SIZE entries and at most one entry per key, and a
\* getFromCache on a key that was added and not evicted since returns the
\* value of the latest addToCache for that key.
C17_CacheBoundedAndLatest ==
    /\ Len(alphaVantageCache) <= CACHE_MAX_SIZE
    /\ \A i, j \in 1..Len(alphaVantageCache) :
          alphaVantageCache[i].key = alphaVantageCache[j].key => i = j
    /\ (input.op = "getFromCache" /\ HasKey(latestAdded, input.key))
          => output = GetEntry(latestAdded, input.key)

\* a full cache returned the value of a key, now its most recent entry, while
\* another key is not cached
C17_Witness ==
    /\ input.op = "getFromCache"
    /\ output = "v"
    /\ Len(alphaVantageCache) = CACHE_MAX_SIZE
    /\ alphaVantageCache[CACHE_MAX_SIZE].key = input.key
    /\ \E key \in CacheKeys : key \notin KeysOf(alphaVantageCache)

\* ------------------------- specification: processFinancialData, repeated
\* processFinancialData as a function of its arguments: the stages in order
processFinancialData(in) ==
    LET extracted == ExtractRawMetrics(in.rawData, in.fxRateUsed, in.startDate, in.endDate)
        processed == CombineCustomStage(AggregateTTMStage(extracted))
        dates == PriceDatesOf(processed)
    IN  IF dates = <<>>
        THEN [kind |-> "thrown", metrics |-> NoMetrics]
        ELSE [kind |-> "returned",
              metrics |-> EvaluateRatiosStage(InterpolateStage(processed, dates), dates)]

\* the arguments of the repeated runs: the price source missing, well-formed
\* or with a non-numeric entry, every other source missing or well-formed
RunShapes(fn) == IF fn = PRICE_FN THEN {"missing", "baseline", "alternate"}
                 ELSE {"missing", "baseline"}
RunInputs ==
    {PipelineInput([fn \in Sources |-> Shaped(fn, c[fn])], Num(2), <<1, MaxDate>>) :
        c \in {x \in [Sources -> Shapes] : \A fn \in Sources : x[fn] \in RunShapes(fn)}}

InitRuns ==
    /\ pc = "EXTRACT_RAW"
    /\ input \in RunInputs
    /\ output = NoOutput
    /\ LocalsUnset
    /\ CacheEmpty
    /\ FetcherIdle
    /\ PageAtLoad

\* the next call, after one has returned or thrown: the locals of the new
\* call are declared by its stages; what the finished call left is not read
Reinvoke ==
    /\ pc \in {"DONE", "FAILED"}
    /\ input' \in RunInputs
    /\ output' = NoOutput
    /\ pc' = "EXTRACT_RAW"
    /\ UNCHANGED <<locals, cache, fetcher, page>>

NextRuns == Next \/ Reinvoke

SpecRuns == InitRuns /\ [][NextRuns]_vars

\* C13: processFinancialData is deterministic and keeps no state between
\* invocations: whatever runs came before, a finished run has the result
\* that its own arguments determine, and the module state is untouched.
C13_ResultDependsOnArgumentsOnly ==
    /\ Finished => output = processFinancialData(input)
    /\ alphaVantageCache = <<>>

\* a run threw after an earlier run with other arguments had returned
C13_Witness ==
    /\ pc = "FAILED"
    /\ output.kind = "thrown"
    /\ interpolatedMetrics # NoMetrics
    /\ extractedRawMetrics["price"].kind = "undef"

\* ------------------------------------------------------------ stage order
\* the stage that follows each stage of a run
StageAfter(stage) ==
    CASE stage = "EXTRACT_RAW"     -> {"AGGREGATE_TTM"}
      [] stage = "AGGREGATE_TTM"   -> {"COMBINE_CUSTOM"}
      [] stage = "COMBINE_CUSTOM"  -> {"INTERPOLATE"}
      [] stage = "INTERPOLATE"     -> {"EVALUATE_RATIOS", "FAILED"}
      [] stage = "EVALUATE_RATIOS" -> {"RETURN"}
      [] stage = "RETURN"          -> {"DONE"}
      [] OTHER                     -> {}

\* C14: a run goes through EXTRACT_RAW, AGGREGATE_TTM, COMBINE_CUSTOM,
\* INTERPOLATE, EVALUATE_RATIOS in this order, once each, and then returns;
\* it fails exactly when it comes to INTERPOLATE without a price date, and a
\* failed run has interpolated nothing, evaluated no ratio and returned no
\* metric. A result is returned only after the ratios.
C14_StagesInOrder ==
    [][ /\ pc' \in StageAfter(pc)
        /\ pc = "INTERPOLATE" =>
              (pc' = "FAILED" <=> PriceDatesOf(processedMetrics) = <<>>)
        /\ pc' = "FAILED" =>
              /\ output' = [kind |-> "thrown", metrics |-> NoMetrics]
              /\ interpolatedMetrics' = NoMetrics
        /\ pc' # "DONE" /\ pc' # "FAILED" => output' = NoOutput
        /\ pc' = "DONE" =>
              /\ output'.kind = "returned"
              /\ output'.metrics = EvaluateRatiosStage(
                     InterpolateStage(processedMetrics, priceDates), priceDates)
      ]_vars

\* a run has returned with a TTM series, a combined series and a ratio in
\* its result: every stage had something to do
C14_Witness ==
    /\ Returned
    /\ output.metrics["ttmEps"].kind # "undef"
    /\ output.metrics["rps"].kind # "undef"
    /\ output.metrics["psRatio"].kind # "undef"
    /\ extractedRawMetrics["annualRevenue"].kind # "undef"

\* ------------------------------------------- specification: getNestedValue
\* Values as JSON.parse gives them: undefined, null, numbers and objects; an
\* object is its own properties, in props. A payload holds no function.
NoProps == [k \in {} |-> 0]
Primitive(t, n) == [t |-> t, n |-> n, props |-> NoProps]
ObjectOf(props) == [t |-> "object", n |-> 0, props |-> props]
JS_UNDEFINED == Primitive("undefined", 0)
JS_NULL == Primitive("null", 0)
Primitives == {JS_UNDEFINED, JS_NULL, Primitive("number", 0), Primitive("number", 7)}

\* the keys of the modelled objects; no primitive has one of them as an own
\* property
PathKeys == {"a", "b", "hasOwnProperty"}

\* acc && ...: undefined, null and 0 are falsy
ToBoolean(v) == ~(v.t \in {"undefined", "null"} \/ (v.t = "number" /\ v.n = 0))

\* acc.hasOwnProperty: an own property of that name hides the method of
\* Object.prototype, and calling a value that is no function is a TypeError
MethodHidden(acc) == acc.t = "object" /\ "hasOwnProperty" \in DOMAIN acc.props

\* acc.hasOwnProperty(key), the method being the one of Object.prototype
HasOwnProperty(acc, key) == acc.t = "object" /\ key \in DOMAIN acc.props

\* path.reduce((acc, key) => (acc && acc.hasOwnProperty(key)) ? acc[key]
\*                                                           : undefined, obj)
RECURSIVE ReduceFrom(_, _)
ReduceFrom(acc, path) ==
    IF path = <<>> THEN [thrown |-> FALSE, value |-> acc]
    ELSE IF ~ToBoolean(acc) THEN ReduceFrom(JS_UNDEFINED, Tail(path))
    ELSE IF MethodHidden(acc) THEN [thrown |-> TRUE, value |-> JS_UNDEFINED]
    ELSE IF HasOwnProperty(acc, Head(path))
         THEN ReduceFrom(acc.props[Head(path)], Tail(path))
         ELSE ReduceFrom(JS_UNDEFINED, Tail(path))

getNestedValueAlong(obj, path) == ReduceFrom(obj, path)

\* objects over the given keys, each key absent or with a value of the set
ObjectsOver(keys, values) ==
    {ObjectOf(f) : f \in UNION {[ks -> values] : ks \in SUBSET keys}}

\* roots: the primitives, and objects whose "a" may hold an inner object
InnerValues == Primitives \cup ObjectsOver(PathKeys, Primitives)
RootOf(inner, rest) ==
    ObjectOf([k \in {"a"} \cup DOMAIN rest.props |->
                 IF k = "a" THEN inner ELSE rest.props[k]])
Paths == UNION {[1..n -> PathKeys] : n \in 1..MaxPathLen}

NoResult == [thrown |-> FALSE, value |-> Primitive("none", 0)]

InitNested ==
    /\ pc = "NESTED"
    /\ \E path \in Paths :
          \/ \E v \in InnerValues : input = [obj |-> v, path |-> path]
          \/ \E inner \in InnerValues :
                \E rest \in ObjectsOver({"b", "hasOwnProperty"}, Primitives) :
                   input = [obj |-> RootOf(inner, rest), path |-> path]
    /\ output = NoResult
    /\ LocalsUnset
    /\ CacheEmpty
    /\ FetcherIdle
    /\ PageAtLoad

CallNested ==
    /\ pc = "NESTED"
    /\ output' = getNestedValueAlong(input.obj, input.path)
    /\ pc' = "DONE"
    /\ UNCHANGED <<input, locals, cache, fetcher, page>>

NextNested == CallNested

SpecNested == InitNested /\ [][NextNested]_vars

\* the value reached by following the path through own properties, undefined
\* from the first key that is absent
RECURSIVE Follow(_, _)
Follow(v, path) ==
    IF path = <<>> THEN v
    ELSE IF HasOwnProperty(v, Head(path)) THEN Follow(v.props[Head(path)], Tail(path))
    ELSE JS_UNDEFINED

\* C15: getNestedValue never throws; it returns the value reached by
\* following the path through own properties, undefined as soon as a key is
\* absent or when the root is null or undefined, and the inner object when
\* the path stops at one.
C15_GetNestedValue ==
    pc = "DONE" =>
        /\ ~output.thrown
        /\ output.value = Follow(input.obj, input.path)

\* --------------------------------------------- specification: findValidDate
\* A property value of a record: a string (a date, 'None', other text or
\* the empty string, with or without surrounding white space) or a number.
Text(class, n, pad) == [t |-> "str", s |-> class, n |-> n, pad |-> pad]
NotText == [t |-> "num", s |-> "", n |-> 7, pad |-> FALSE]
NULL_DATE == [t |-> "null", s |-> "", n |-> 0, pad |-> FALSE]

\* the string as it is
Untrimmed(x) == x
\* String.prototype.trim
Trim(x) == [x EXCEPT !.pad = FALSE]

\* the scan of lines 16-26 over the keys from position i on
RECURSIVE FindValidDateFrom(_, _, _)
FindValidDateFrom(item, keys, i) ==
    IF i > Len(keys) THEN NULL_DATE
    ELSE LET key == keys[i] IN
         IF key \in DOMAIN item /\ item[key].t = "str"
         THEN LET dateStr == Trim(item[key]) IN
              IF dateStr.s # "empty" /\ dateStr.s # "None" /\ IsValidDate(dateStr)
              THEN dateStr
              ELSE FindValidDateFrom(item, keys, i + 1)
         ELSE FindValidDateFrom(item, keys, i + 1)

\* findValidDate(item, potentialDateKeys): a single key stands for the list
\* of that key (line 15)
findValidDateAmong(item, potentialDateKeys) ==
    LET keys == IF potentialDateKeys.isArray THEN potentialDateKeys.keys
                ELSE <<potentialDateKeys.key>>
    IN  FindValidDateFrom(item, keys, 1)

DateKeys == {"fiscalDateEnding", "reportedDate"}
Texts == {Text("date", 1, FALSE), Text("date", 1, TRUE), Text("date", 2, FALSE),
          Text("None", 0, FALSE), Text("None", 0, TRUE),
          Text("empty", 0, FALSE), Text("empty", 0, TRUE), Text("junk", 0, FALSE)}
Items == UNION {[ks -> Texts \cup {NotText}] : ks \in SUBSET DateKeys}
KeyList(keys) == [isArray |-> TRUE, keys |-> keys, key |-> ""]
SingleKey(key) == [isArray |-> FALSE, keys |-> <<>>, key |-> key]
KeyArguments ==
    {SingleKey(k) : k \in DateKeys}
    \cup {KeyList(ks) : ks \in UNION {[1..n -> DateKeys] : n \in 0..MaxKeys}}

InitFindDate ==
    /\ pc = "FIND_DATE"
    /\ \E item \in Items, ks \in KeyArguments :
          input = [item |-> item, potentialDateKeys |-> ks]
    /\ output = Text("none", 0, FALSE)
    /\ LocalsUnset
    /\ CacheEmpty
    /\ FetcherIdle
    /\ PageAtLoad

CallFindDate ==
    /\ pc = "FIND_DATE"
    /\ output' = findValidDateAmong(input.item, input.potentialDateKeys)
    /\ pc' = "DONE"
    /\ UNCHANGED <<input, locals, cache, fetcher, page>>

NextFindDate == CallFindDate

SpecFindDate == InitFindDate /\ [][NextFindDate]_vars

\* the candidate keys of a call, in order
CandidateKeys(arg) == IF arg.isArray THEN arg.keys ELSE <<arg.key>>

\* the value under the key is a string that, white space apart, is not
\* empty, is not 'None' and is a valid date
Qualifies(item, key) ==
    /\ key \in DOMAIN item
    /\ item[key].t = "str"
    /\ item[key].s \notin {"empty", "None"}
    /\ item[key].s = "date"

\* C16: findValidDate returns the trimmed value of the first candidate key,
\* in list order, whose value is a string that is non-empty after trimming,
\* is not 'None' and is a valid date; null when no key qualifies. A single
\* key counts as the list of that key.
C16_FirstQualifyingKey ==
    pc = "DONE" =>
        LET keys == CandidateKeys(input.potentialDateKeys)
            good == {i \in 1..Len(keys) : Qualifies(input.item, keys[i])}
        IN  IF good = {} THEN output = NULL_DATE
            ELSE LET first == CHOOSE i \in good : \A j \in good : i <= j
                     value == input.item[keys[first]]
                 IN  /\ output.t = "str" /\ output.s = value.s /\ output.n = value.n
                     /\ ~output.pad

\* two keys qualify with different values, the first one padded with white
\* space: the first one is returned, trimmed
C16_Witness ==
    /\ pc = "DONE"
    /\ input.potentialDateKeys.isArray
    /\ Len(input.potentialDateKeys.keys) = 2
    /\ LET keys == input.potentialDateKeys.keys IN
          /\ keys[1] # keys[2]
          /\ Qualifies(input.item, keys[1]) /\ Qualifies(input.item, keys[2])
          /\ input.item[keys[1]].pad
          /\ input.item[keys[1]].n # input.item[keys[2]].n
          /\ output = Text("date", input.item[keys[1]].n, FALSE)

\* ------------------------------------- specification: calculateCustomMetric
\* the four calls of lines 240-243
CustomCall(metricId, id1, id2, operation) ==
    [metricId |-> metricId, id1 |-> id1, id2 |-> id2, operation |-> operation]
CustomCalls ==
    { CustomCall("rps", "annualRevenue", "commonSharesOutstanding", "divide"),
      CustomCall("fcf", "operatingCashflow", "capitalExpenditures", "subtract"),
      CustomCall("fcfPerShare", "fcf", "commonSharesOutstanding", "divide"),
      CustomCall("ttmDividends", "dividendPayout", "commonSharesOutstanding", "divide") }

\* Operands: up to MaxOperandLen points, in any order, at different dates,
\* two of the dates in one year and one in the next. A raw operand is an
\* array; fcf, made by the combiner itself, is an object.
OperandDates == {1, 2, YearLen + 1}
OperandPoints(values) ==
    {s \in SeqsUpTo({Pt(d, v) : d \in OperandDates, v \in values}, MaxOperandLen) :
        \A i, j \in 1..Len(s) : s[i].date = s[j].date => i = j}
FirstOperands(id1) ==
    {IF id1 = "fcf" THEN Obj(s) ELSE Arr(s) : s \in OperandPoints({Num(2), Num(6)})}
SecondOperands == {Arr(s) : s \in OperandPoints({Num(0), Num(2), Inf(1)})}

InitCombine ==
    /\ pc = "COMBINE"
    /\ \E c \in CustomCalls : \E data1 \in FirstOperands(c.id1), data2 \in SecondOperands :
          input = [call |-> c, data1 |-> data1, data2 |-> data2]
    /\ output = Undef
    /\ LocalsUnset
    /\ CacheEmpty
    /\ FetcherIdle
    /\ PageAtLoad

\* one call of calculateCustomMetric on metrics that hold the two operands
CallCombine ==
    /\ pc = "COMBINE"
    /\ LET c == input.call
           metrics == [NoMetrics EXCEPT ![c.id1] = input.data1, ![c.id2] = input.data2]
       IN  output' = calculateCustomMetric(metrics, c.metricId, c.id1, c.id2,
                                           c.operation)[c.metricId]
    /\ pc' = "DONE"
    /\ UNCHANGED <<input, locals, cache, fetcher, page>>

NextCombine == CallCombine

SpecCombine == InitCombine /\ [][NextCombine]_vars

\* the years of a series, and the value of the point of a year that comes
\* last in the series
YearsOf(data) == {Year(data.pts[i].date) : i \in 1..Len(data.pts)}
LastOfYear(data, year) ==
    data.pts[CHOOSE i \in 1..Len(data.pts) :
                 /\ Year(data.pts[i].date) = year
                 /\ \A j \in (i + 1)..Len(data.pts) : Year(data.pts[j].date) # year].value
CombinedValue(operation, val1, val2) ==
    IF operation = "subtract" THEN JsSub(val1, val2) ELSE JsDiv(val1, val2)
EntryAt(series, date) == {series.pts[i].value : i \in {j \in 1..Len(series.pts) : series.pts[j].date = date}}
EntriesOfYear(series, year) == {i \in 1..Len(series.pts) : Year(series.pts[i].date) = year}

\* C18: the combiner matches by year: for every point p of the first
\* operand whose year occurs in the second operand, the result has an entry
\* at the date of p with the value of p combined with the last value of that
\* year in the second operand (a division by 0 set aside); a point whose
\* year has no match has no entry at its date.
C18_EntryAtEveryFirstOperandPoint ==
    pc = "DONE" =>
        \A i \in 1..Len(input.data1.pts) :
            LET p == input.data1.pts[i]
                year == Year(p.date)
                operation == input.call.operation
            IN  IF year \in YearsOf(input.data2)
                THEN LET val2 == LastOfYear(input.data2, year) IN
                     \/ (operation = "divide" /\ val2 = Num(0))
                     \/ EntryAt(output, p.date) = {CombinedValue(operation, p.value, val2)}
                ELSE EntryAt(output, p.date) = {}

\* C19: a 'divide' whose second-operand value of a matched year is 0 has no
\* entry in that year, and has one in every other matched year; a 'subtract'
\* has an entry in every matched year, whatever the second value is.
C19_ZeroDivisorDropsTheYear ==
    pc = "DONE" =>
        \A year \in YearsOf(input.data1) \cap YearsOf(input.data2) :
            IF input.call.operation = "divide" /\ LastOfYear(input.data2, year) = Num(0)
            THEN EntriesOfYear(output, year) = {}
            ELSE EntriesOfYear(output, year) # {}

\* a division where one matched year has the divisor 0 and has no entry,
\* and another matched year has its entry
C19_Witness ==
    /\ pc = "DONE"
    /\ input.call.operation = "divide"
    /\ LET matched == YearsOf(input.data1) \cap YearsOf(input.data2) IN
          \E y, z \in matched :
             /\ y # z
             /\ LastOfYear(input.data2, y) = Num(0)
             /\ EntriesOfYear(output, y) = {}
             /\ EntriesOfYear(output, z) # {}

\* ------------------------------------------------ the axis of the ratios
\* the series is defined on exactly the dates of the price calendar
OnPriceCalendar(series) ==
    DatesOf(series.pts) = {priceDates[i] : i \in 1..Len(priceDates)}

\* C20: when the ratio stage evaluates a derived_ratio of the catalog, that
\* is with both operands present, each operand is on the price calendar: its
\* set of dates is the set of price dates.
C20_RatioOperandsOnPriceCalendar ==
    pc = "EVALUATE_RATIOS" =>
        \A mc \in RatioDescs : OperandsExist(mc) =>
            /\ OnPriceCalendar(interpolatedMetrics[mc.num])
            /\ OnPriceCalendar(interpolatedMetrics[mc.den])

\* ------------------------------------------- the arithmetic of a formula
\* every identifier of the formula has a number as its value
AllNumeric(env) == \A name \in DOMAIN env : env[name].k = "num"
\* no division of the formula has the divisor 0
NoZeroDivisor(tree, env) ==
    \A d \in 1..Len(Divisors(tree)) : Denotes(Divisors(tree)[d], env) # Num(0)

\* C21: at every target date where all identifiers of the formula have
\* numeric values, calculateDerivedMetric returns the arithmetic value of
\* the formula over these values whenever that value is finite and nothing
\* in it is divided by zero; also when one identifier is part of another and
\* when the division is followed by further terms.
C21_ArithmeticValue ==
    pc = "done" =>
        \A i \in 1..Len(input.commonDates) :
            LET env == EnvAt(input.commonDates[i])
            IN  ( /\ AllNumeric(env)
                  /\ NoZeroDivisor(input.tree, env)
                  /\ Denotes(input.tree, env).k = "num" )
                => output.values[i] = Denotes(input.tree, env)

\* --------------------------------------- the order of the source points
\* the orders in which the points of s can be given
Reorderings(s) ==
    {[i \in 1..Len(s) |-> s[f[i]]] :
        f \in {g \in [1..Len(s) -> 1..Len(s)] : \A i, j \in 1..Len(s) : g[i] = g[j] => i = j}}

\* C22: the output of interpolateData does not depend on the order of the
\* source points: a source with unique dates gives the same output in every
\* order, the ascending one among them.
C22_SourceOrderIrrelevant ==
    pc = "done" =>
        \A q \in Reorderings(input.source.pts) :
            interpolateData(Arr(q), input.targets) = output

\* a source of three points given in an order that is not ascending, over
\* an axis on which two of its values show
C22_Witness ==
    /\ pc = "done"
    /\ Len(input.source.pts) = 3
    /\ ~IsAscending([i \in 1..3 |-> input.source.pts[i].date])
    /\ \E i, j \in 1..Len(output) :
          /\ output[i].value # Null /\ output[j].value # Null
          /\ output[i].value # output[j].value

\* ------------------------------------------------- what a run leaves alone
\* C23: a run leaves its arguments as they were: no step changes the raw
\* payloads, the FX rate or the window; the TTM step leaves the series it
\* aggregates as it was, and the interpolation leaves every series it reads,
\* in its order, and the price calendar it was given, as they were.
C23_ArgumentsUnchanged ==
    [][ /\ input' = input
        /\ pc = "AGGREGATE_TTM" =>
              \A mc \in Catalog : IsTTM(mc) =>
                 processedMetrics'[mc.calculation_basis]
                     = processedMetrics[mc.calculation_basis]
        /\ pc = "INTERPOLATE" =>
              /\ processedMetrics' = processedMetrics
              /\ priceDates' = PriceDatesOf(processedMetrics)
        /\ pc = "EVALUATE_RATIOS" => priceDates' = priceDates
      ]_vars

\* a run has returned after interpolating a series whose two points were
\* extracted in descending order, and the series is still in that order
C23_Witness ==
    /\ Returned
    /\ \E id \in metricsToInterpolate \ {"price"} :
          /\ IsArray(processedMetrics[id])
          /\ Len(processedMetrics[id].pts) = 2
          /\ processedMetrics[id].pts[1].date > processedMetrics[id].pts[2].date
          /\ interpolatedMetrics[id] # processedMetrics[id]
          /\ \E i \in 1..Len(interpolatedMetrics[id].pts) :
                interpolatedMetrics[id].pts[i].value # Null

\* ------------------------------------------- the order of reads and writes
\* the four calls of lines 240-243, in the order of the code
CustomCallOrder ==
    << CustomCall("rps", "annualRevenue", "commonSharesOutstanding", "divide"),
       CustomCall("fcf", "operatingCashflow", "capitalExpenditures", "subtract"),
       CustomCall("fcfPerShare", "fcf", "commonSharesOutstanding", "divide"),
       CustomCall("ttmDividends", "dividendPayout", "commonSharesOutstanding", "divide") >>

\* The steps of a run, numbered in the order of the code: the raw loop, the
\* TTM step, each call of the combiner, the interpolation, the ratios.
RawStep == 1
TTMStep == RawStep + 1
CustomStep(k) == TTMStep + k
InterpolationStep == CustomStep(Len(CustomCallOrder)) + 1
RatioStep == InterpolationStep + 1

\* the step that writes the metric of an id, 0 when no step does
WrittenAt(id) ==
    IF id \notin MetricIds THEN 0
    ELSE IF IsRaw(Desc(id)) THEN RawStep
    ELSE IF IsTTM(Desc(id)) THEN TTMStep
    ELSE IF \E k \in 1..Len(CustomCallOrder) : CustomCallOrder[k].metricId = id
         THEN CustomStep(CHOOSE k \in 1..Len(CustomCallOrder) : CustomCallOrder[k].metricId = id)
    ELSE IF IsRatio(Desc(id)) THEN RatioStep
    ELSE 0

\* the metric of id is written by a step before the given one
WrittenBefore(id, step) == 0 < WrittenAt(id) /\ WrittenAt(id) < step

\* C24: with the shipped catalog no step reads a metric written by a later
\* step: every derived_ttm basis is written by the raw extraction, every
\* operand of a combiner call is written before that call, and every operand
\* of a derived_ratio is written by a step before the ratio stage.
C24_WrittenBeforeRead ==
    /\ \A mc \in Catalog : IsTTM(mc) => WrittenAt(mc.calculation_basis) = RawStep
    /\ \A k \in 1..Len(CustomCallOrder) :
          /\ WrittenBefore(CustomCallOrder[k].id1, CustomStep(k))
          /\ WrittenBefore(CustomCallOrder[k].id2, CustomStep(k))
    /\ \A mc \in Catalog : IsRatio(mc) =>
          /\ WrittenBefore(mc.num, RatioStep)
          /\ WrittenBefore(mc.den, RatioStep)
    /\ pc = "EVALUATE_RATIOS" =>
          \A id \in MetricIds :
             interpolatedMetrics[id] # Undef => WrittenBefore(id, RatioStep)

\* ------------------------------------------ specification: prepareChartData
\* x ?? null as it would be without the fallback
NullishKept(v) == v
\* x ?? null
NullishToNull(v) == IF v = Undefined \/ v = Null THEN Null ELSE v

\* Object.keys(processedMetrics['price'] || {}).sort()
CommonLabelsOf(metrics) == SortAsc(DatesOf(Lookup(metrics, "price").pts))

\* lines 21-30: the values of the metric's data at the labels
AlignedData(data, commonLabels) ==
    LET dataMap == ToDateMap(data)
    IN  [j \in 1..Len(commonLabels) |-> NullishToNull(MapGet(dataMap, commonLabels[j]))]

\* the loop of lines 14-40 from position k of selectedMetrics on; a dataset
\* is told by the id of its descriptor
RECURSIVE DatasetsFrom(_, _, _, _, _)
DatasetsFrom(metrics, selectedMetrics, k, commonLabels, datasetsForChart) ==
    IF k > Len(selectedMetrics) THEN datasetsForChart
    ELSE LET metricId == selectedMetrics[k]
             data == Lookup(metrics, metricId)
         IN  IF metricId \notin MetricIds \/ ~Truthy(data)
             THEN DatasetsFrom(metrics, selectedMetrics, k + 1, commonLabels,
                               datasetsForChart)
             ELSE DatasetsFrom(metrics, selectedMetrics, k + 1, commonLabels,
                               Append(datasetsForChart,
                                      [id |-> metricId,
                                       data |-> AlignedData(data, commonLabels)]))

\* prepareChartData(processedMetrics, selectedMetrics, metricsConfig) with
\* the shipped catalog; chart.hasMetrics is false for a null processedMetrics
\* and chart.hasSelection for a null selectedMetrics
prepareChartData(chart) ==
    IF ~chart.hasMetrics THEN [datasets |-> <<>>, commonLabels |-> <<>>]
    ELSE LET selectedMetrics == IF chart.hasSelection THEN chart.selectedMetrics ELSE <<>>
             commonLabels == CommonLabelsOf(chart.processedMetrics)
         IN  [datasets |-> DatasetsFrom(chart.processedMetrics, selectedMetrics, 1,
                                        commonLabels, <<>>),
              commonLabels |-> commonLabels]

\* Arguments: a result map with price (a map, its keys in any order),
\* revenues (an array, null values among them), fcf (a map) and an id that
\* the catalog does not have, each possibly absent; a selection of up to
\* MaxSelected of these ids, or none
ChartIds == {"price", "revenues", "fcf", "notInCatalog"}
ChartSeries(id) ==
    IF id = "price" THEN {Obj(s) : s \in OperandPoints({Num(3)})}
    ELSE IF id = "revenues" THEN {Arr(s) : s \in OperandPoints({Num(7), Null})}
    ELSE {Obj(<<Pt(1, Num(5))>>)}
ChartMetrics(price, revenues, others) ==
    [id \in {i \in ChartIds : (i = "price" /\ price # Undef) \/ (i = "revenues" /\ revenues # Undef)
                               \/ i \in others} |->
        IF id = "price" THEN price
        ELSE IF id = "revenues" THEN revenues
        ELSE Obj(<<Pt(1, Num(5))>>)]
NoChart == [datasets |-> <<>>, commonLabels |-> <<0>>]

InitChart ==
    /\ pc = "CHART"
    /\ \E hasMetrics, hasSelection \in BOOLEAN :
          \E price \in ChartSeries("price") \cup {Undef},
             revenues \in ChartSeries("revenues") \cup {Undef},
             others \in SUBSET {"fcf", "notInCatalog"},
             selected \in SeqsUpTo(ChartIds, MaxSelected) :
             /\ ~hasMetrics => (price = Undef /\ revenues = Undef /\ others = {})
             /\ ~hasSelection => selected = <<>>
             /\ input = [hasMetrics |-> hasMetrics, hasSelection |-> hasSelection,
                         processedMetrics |-> ChartMetrics(price, revenues, others),
                         selectedMetrics |-> selected]
    /\ output = NoChart
    /\ LocalsUnset
    /\ CacheEmpty
    /\ FetcherIdle
    /\ PageAtLoad

CallChart ==
    /\ pc = "CHART"
    /\ output' = prepareChartData(input)
    /\ pc' = "DONE"
    /\ UNCHANGED <<input, locals, cache, fetcher, page>>

NextChart == CallChart

SpecChart == InitChart /\ [][NextChart]_vars

\* the selected id has a catalog entry and data
Charted(id) == id \in MetricIds /\ id \in DOMAIN input.processedMetrics
\* the values the data of the id has at the date
ValuesAt(id, date) ==
    {p.value : p \in {q \in SeqSet(input.processedMetrics[id].pts) : q.date = date}}

\* C25: prepareChartData returns the ascending price dates as commonLabels
\* and, for each selected id that has a catalog entry and data, one dataset,
\* in selection order, with one entry per label: the value of the metric at
\* that date, null where it has none, for arrays and maps alike; other
\* selected ids are skipped; a null result map gives no dataset and no label.
C25_ChartData ==
    pc = "DONE" =>
        IF ~input.hasMetrics THEN output = [datasets |-> <<>>, commonLabels |-> <<>>]
        ELSE LET labels == output.commonLabels
                 kept == SelectSeq(input.selectedMetrics, Charted)
             IN  /\ IsAscending(labels)
                 /\ {labels[j] : j \in 1..Len(labels)}
                       = (IF "price" \in DOMAIN input.processedMetrics
                          THEN DatesOf(input.processedMetrics["price"].pts) ELSE {})
                 /\ Len(output.datasets) = Len(kept)
                 /\ \A k \in 1..Len(kept) :
                       /\ output.datasets[k].id = kept[k]
                       /\ Len(output.datasets[k].data) = Len(labels)
                       /\ \A j \in 1..Len(labels) :
                             LET found == ValuesAt(kept[k], labels[j])
                             IN  IF found = {} THEN output.datasets[k].data[j] = Null
                                 ELSE output.datasets[k].data[j] \in found

\* price (keys not in ascending order) and revenues are charted, in this
\* order, and revenues has a value at the first label and none at the second
C25_Witness ==
    /\ pc = "DONE"
    /\ input.selectedMetrics = <<"price", "revenues">>
    /\ Len(output.commonLabels) = 2
    /\ input.processedMetrics["price"].pts[1].date > input.processedMetrics["price"].pts[2].date
    /\ Len(output.datasets) = 2
    /\ output.datasets[1].data = <<Num(3), Num(3)>>
    /\ output.datasets[2].data = <<Num(7), Null>>
    /\ Len(input.processedMetrics["revenues"].pts) = 1

\* ------------------------------------------------- the order of eviction
\* the key among keys whose last use is the oldest
LeastRecentlyUsed(keys) ==
    CHOOSE k \in keys :
        \A other \in keys :
            \A i, j \in 1..Len(lastUse) : (lastUse[i] = k /\ lastUse[j] = other) => i <= j

\* C26: the cache evicts in least-recently-used order: an addToCache of a
\* new key into a full cache removes exactly the entry whose last addToCache
\* or successful getFromCache is the oldest; an addToCache of a cached key
\* makes it the most recent entry and removes no key; an addToCache into a
\* cache with room removes none; a
\* getFromCache that misses leaves the entries and their order as they were,
\* and one that hits leaves the same keys.
C26_LeastRecentlyUsedEvicted ==
    [][ LET before == KeysOf(alphaVantageCache)
            after == KeysOf(alphaVantageCache')
        IN  /\ input'.op = "addToCache" =>
                  /\ alphaVantageCache'[Len(alphaVantageCache')].key = input'.key
                  /\ IF input'.key \in before THEN after = before
                     ELSE IF Len(alphaVantageCache) >= CACHE_MAX_SIZE
                          THEN after = (before \ {LeastRecentlyUsed(before)}) \cup {input'.key}
                          ELSE after = before \cup {input'.key}
            /\ input'.op = "getFromCache" =>
                  IF input'.key \in before THEN after = before
                  ELSE alphaVantageCache' = alphaVantageCache
      ]_vars

\* a key was added to a full cache whose oldest entry had been read since
\* the other entry was added: the entry read is kept, the other one is gone
C26_Witness ==
    /\ input.op = "addToCache"
    /\ Len(lastUse) = CACHE_MAX_SIZE + 1
    /\ lastUse[Len(lastUse)] = input.key
    /\ lastUse[1] \notin KeysOf(alphaVantageCache)
    /\ Len(alphaVantageCache) = CACHE_MAX_SIZE
    /\ HasKey(latestAdded, alphaVantageCache[1].key)
    /\ \E i \in 1..Len(latestAdded) :
          /\ latestAdded[i].key = lastUse[2]
          /\ \A j \in 1..Len(latestAdded) : latestAdded[j].key = input.key => i < j

\* ------------------------------------------ specification: fetchFinancialData
\* A response body is a JSON object: a document (for a statement endpoint
\* with annualReports[0].reportedCurrency, "" when there is none), an FX
\* series (the "4. close" strings of its entries, latest first), or an object
\* with an "Error Message" or a "Note".  A request may also fail: fetch or
\* response.json() rejects.
Body(kind, currency, closes) == [body |-> kind, reportedCurrency |-> currency,
                                 closes |-> closes, error |-> <<>>]
Document(currency) == Body("document", currency, <<>>)
FxSeries(closes) == Body("Time Series FX (Monthly)", "", closes)
ErrorMessageBody == Body("Error Message", "", <<>>)
NoteBody == Body("Note", "", <<>>)
RequestFailed == Body("rejected", "", <<>>)

\* { error: `Failed to fetch ${func}: ${error.message}` }; of the text only
\* the name of the function is kept
FetchError(func) ==
    [body |-> "error", reportedCurrency |-> "", closes |-> <<>>, error |-> <<func>>]

currencyEndpoints == <<"CASH_FLOW", "INCOME_STATEMENT", "BALANCE_SHEET">>

\* what a request for a function may come back with
Outcomes(func) ==
    (IF func \in SeqSet(currencyEndpoints)
     THEN {Document("USD"), Document("EUR")} ELSE {Document("")})
        \cup {ErrorMessageBody, NoteBody, RequestFailed}
FxOutcomes == {FxSeries(<<NumStr(2)>>), FxSeries(<<>>), ErrorMessageBody, NoteBody, RequestFailed}

\* data["Error Message"] || data["Note"]
ReportsError(data) == data.body \in {"Error Message", "Note"}

\* the request urls
Url(func, ticker, apiKey) ==
    [function |-> func, symbol |-> ticker, apikey |-> apiKey,
     outputsize |-> IF func = PRICE_FN THEN "full" ELSE ""]
FxUrl(localCurrency, apiKey) ==
    [function |-> "FX_MONTHLY", symbol |-> localCurrency, apikey |-> apiKey, outputsize |-> ""]

\* new Set(metricsConfig.map(m => m.source_function).filter(Boolean))
functionsToFetch ==
    LET withSource == SelectSeq(metricsConfig, LAMBDA m : m.source_function # "")
    IN  Dedup([i \in 1..Len(withSource) |-> withSource[i].source_function], 1, <<>>)

\* the loop over functionsToFetch: a cached function gets its entry at once
\* (every cached value is an object, hence truthy), for any other a request
\* is started.  st is <<fetchedRawData, alphaVantageCalls, cache>>.
RECURSIVE StartRequests(_, _, _)
StartRequests(call, i, st) ==
    IF i > Len(functionsToFetch) THEN st
    ELSE LET func == functionsToFetch[i]
             url == Url(func, call.ticker, call.alphaVantageApiKey)
             cachedData == getFromCache(st.cache, url)
         IN  IF HasKey(st.cache, url)
             THEN StartRequests(call, i + 1,
                      [fetched |-> SetEntry(st.fetched, func, cachedData.value),
                       calls |-> st.calls,
                       cache |-> cachedData.entries])
             ELSE StartRequests(call, i + 1, [st EXCEPT !.calls = @ \cup {func}])

\* a request settled without its catch handler: a failure leaves no entry
SettledWithoutCatch(fetched, func, data) ==
    IF data = RequestFailed \/ ReportsError(data) THEN fetched
    ELSE SetEntry(fetched, func, data)

\* fetchedRawData after the then/catch chain of a request has run
Settled(fetched, func, data) ==
    IF data = RequestFailed \/ ReportsError(data)
    THEN SetEntry(fetched, func, FetchError(func))
    ELSE SetEntry(fetched, func, data)

\* the cache after the chain has run: only a body that passed the check of
\* line 66 reaches addToCache
CachedAfter(entries, url, data) ==
    IF data = RequestFailed \/ ReportsError(data) THEN entries
    ELSE addToCache(entries, url, data)

\* the currency detection over currencyEndpoints: the first non-USD wins
RECURSIVE DetectCurrency(_, _)
DetectCurrency(fetched, i) ==
    IF i > Len(currencyEndpoints) THEN "USD"
    ELSE IF ~HasKey(fetched, currencyEndpoints[i]) THEN DetectCurrency(fetched, i + 1)
    ELSE LET raw == GetEntry(fetched, currencyEndpoints[i])
             detected == IF raw.reportedCurrency # "" THEN raw.reportedCurrency ELSE "USD"
         IN  IF detected # "USD" THEN detected ELSE DetectCurrency(fetched, i + 1)

\* mostRecentFX
MostRecentFX(fxData) ==
    IF fxData.body = "Time Series FX (Monthly)" /\ Len(fxData.closes) > 0
    THEN parseFloat(fxData.closes[1])
    ELSE Num(1)

Tickers == {"IBM"}
ApiKeys == {"demo"}
NoResponse == [function |-> "", data |-> RequestFailed]
FetchResult(settled, rawData, fxRateUsed) ==
    [settled |-> settled, rawData |-> rawData, fxRateUsed |-> fxRateUsed]

\* the histories latestAdded and lastUse belong to the cache specification
\* and are not kept here
InitFetch ==
    /\ pc = "FETCH"
    /\ input = [ticker |-> "", alphaVantageApiKey |-> "", response |-> NoResponse]
    /\ output = FetchResult("none", <<>>, Num(1))
    /\ LocalsUnset
    /\ CacheEmpty
    /\ FetcherIdle
    /\ PageAtLoad

\* fetchFinancialData is called: lines 49-77 run up to the await
CallFetch ==
    /\ pc = "FETCH"
    /\ \E ticker \in Tickers, apiKey \in ApiKeys :
          LET call == [ticker |-> ticker, alphaVantageApiKey |-> apiKey,
                       response |-> NoResponse]
              st == StartRequests(call, 1, [fetched |-> <<>>, calls |-> {},
                                            cache |-> alphaVantageCache])
          IN  /\ input' = call
              /\ fetchedRawData' = st.fetched
              /\ alphaVantageCalls' = st.calls
              /\ alphaVantageCache' = st.cache
    /\ output' = FetchResult("pending", <<>>, Num(1))
    /\ pc' = "AWAIT_ALL"
    /\ UNCHANGED <<locals, latestAdded, lastUse, page>>

\* one of the pending requests settles: its then/catch chain runs
SettleRequest ==
    /\ pc = "AWAIT_ALL"
    /\ \E func \in alphaVantageCalls :
          \E data \in Outcomes(func) :
              /\ input' = [input EXCEPT !.response = [function |-> func, data |-> data]]
              /\ fetchedRawData' = Settled(fetchedRawData, func, data)
              /\ alphaVantageCache' =
                    CachedAfter(alphaVantageCache,
                                Url(func, input.ticker, input.alphaVantageApiKey), data)
              /\ alphaVantageCalls' = alphaVantageCalls \ {func}
    /\ UNCHANGED <<pc, output, locals, latestAdded, lastUse, page>>

\* Promise.all has resolved: lines 80-107, up to the return or to the await
\* of the FX request
AfterAll ==
    /\ pc = "AWAIT_ALL"
    /\ alphaVantageCalls = {}
    /\ LET localCurrency == DetectCurrency(fetchedRawData, 1)
           fxUrl == FxUrl(localCurrency, input.alphaVantageApiKey)
           cachedFX == getFromCache(alphaVantageCache, fxUrl)
       IN  IF localCurrency = "USD"
           THEN /\ output' = FetchResult("fulfilled", fetchedRawData, Num(1))
                /\ pc' = "FETCH"
                /\ UNCHANGED alphaVantageCache
           ELSE IF HasKey(alphaVantageCache, fxUrl)
           THEN /\ output' = FetchResult("fulfilled", fetchedRawData,
                                         MostRecentFX(cachedFX.value))
                /\ pc' = "FETCH"
                /\ alphaVantageCache' = cachedFX.entries
           ELSE /\ pc' = "AWAIT_FX"
                /\ UNCHANGED <<output, alphaVantageCache>>
    /\ UNCHANGED <<input, locals, latestAdded, lastUse, fetcher, page>>

\* the FX request settles: lines 106-121; a failed request rejects the call
SettleFX ==
    /\ pc = "AWAIT_FX"
    /\ \E fxData \in FxOutcomes :
          /\ input' = [input EXCEPT !.response = [function |-> "FX_MONTHLY", data |-> fxData]]
          /\ IF fxData = RequestFailed
             THEN /\ output' = FetchResult("rejected", <<>>, Num(1))
                  /\ UNCHANGED alphaVantageCache
             ELSE /\ output' = FetchResult("fulfilled", fetchedRawData, MostRecentFX(fxData))
                  /\ alphaVantageCache' =
                        addToCache(alphaVantageCache,
                                   FxUrl(DetectCurrency(fetchedRawData, 1),
                                         input.alphaVantageApiKey),
                                   fxData)
    /\ pc' = "FETCH"
    /\ UNCHANGED <<locals, latestAdded, lastUse, fetcher, page>>

NextFetch == CallFetch \/ SettleRequest \/ AfterAll \/ SettleFX

SpecFetch == InitFetch /\ [][NextFetch]_vars

\* every request of the call in progress, or of the last call, has settled
AllSettled == input.ticker # "" /\ alphaVantageCalls = {}

\* the entry a function has: a document of that function or its sentinel
EntryOf(func) == GetEntry(fetchedRawData, func)
IsDocumentOf(func, data) == data \in Outcomes(func) /\ data.body = "document"

\* C27: once the per-function requests of a call have all settled, whatever
\* the order, fetchedRawData has exactly one entry for every distinct source
\* function of the catalog, a response document of that function or its
\* {error} sentinel; a request that fails or reports an error leaves the
\* sentinel under its own function, a document is stored as its entry, the
\* entries of the other functions stay as they were, and the call is not
\* rejected while the requests settle.
C27_OneEntryPerFunction ==
    [][ /\ AllSettled' =>
              /\ KeysOf(fetchedRawData') = Sources
              /\ Len(fetchedRawData') = Cardinality(Sources)
              /\ \A func \in Sources :
                    LET entry == GetEntry(fetchedRawData', func)
                    IN  entry = FetchError(func) \/ IsDocumentOf(func, entry)
        /\ (pc = "AWAIT_ALL" /\ alphaVantageCalls' # alphaVantageCalls) =>
              LET func == input'.response.function
                  data == input'.response.data
              IN  /\ alphaVantageCalls' = alphaVantageCalls \ {func}
                  /\ func \in alphaVantageCalls
                  /\ HasKey(fetchedRawData', func)
                  /\ GetEntry(fetchedRawData', func) =
                        IF data.body = "document" THEN data ELSE FetchError(func)
                  /\ \A other \in KeysOf(fetchedRawData) \ {func} :
                        /\ HasKey(fetchedRawData', other)
                        /\ GetEntry(fetchedRawData', other) = GetEntry(fetchedRawData, other)
                  /\ output' = output
                  /\ pc' = "AWAIT_ALL"
        /\ pc = "AWAIT_ALL" => output'.settled # "rejected"
      ]_vars

\* all requests have settled, the last of them with a Note: that function
\* has its sentinel, two others have their documents, and the entries are
\* in another order than the functions of the catalog
C27_Witness ==
    /\ pc = "AWAIT_ALL"
    /\ alphaVantageCalls = {}
    /\ input.response.data = NoteBody
    /\ input.response.function = "EARNINGS"
    /\ EntryOf("EARNINGS") = FetchError("EARNINGS")
    /\ EntryOf("CASH_FLOW") = Document("EUR")
    /\ EntryOf(PRICE_FN) = Document("")
    /\ fetchedRawData[1].key = "CASH_FLOW"
    /\ functionsToFetch[1] # "CASH_FLOW"

\* C28: no value in the response cache is an error response: every cached
\* value, under the url of a function or of the FX rate, is a body without
\* 'Error Message' and 'Note'.
C28_OnlySuccessesCached ==
    \A i \in 1..Len(alphaVantageCache) : ~ReportsError(alphaVantageCache[i].val)

\* the same for the urls of the per-function requests alone
C28_FunctionUrlsOnly ==
    \A i \in 1..Len(alphaVantageCache) :
        alphaVantageCache[i].key.function # "FX_MONTHLY"
            => alphaVantageCache[i].val.body = "document"

\* ------------------------------------------- interpolating a second time
\* C29: on an ascending axis interpolateData is idempotent: interpolating
\* its output onto the same axis again returns that output, for every source
\* array, points with null values included.
C29_InterpolateIdempotent ==
    pc = "done" => interpolateData(Arr(output), input.targets) = output

\* a source with a null point between two valued ones, on an axis that has
\* a date before the source, the date of the null point and a later date
\* that no source point has: the output has a null from each cause and a
\* forward-filled value, and is not the source itself
C29_Witness ==
    /\ pc = "done"
    /\ output # input.source.pts
    /\ \E p \in SeqSet(input.source.pts) :
          /\ p.value = Null
          /\ \E q \in SeqSet(input.source.pts) : q.date < p.date /\ q.value # Null
          /\ \E i \in 1..Len(output) : output[i].date = p.date /\ output[i].value = Null
    /\ \E i \in 1..Len(output) :
          /\ OnOrBefore(input.source.pts, output[i].date) = {}
          /\ output[i].value = Null
    /\ \E i \in 1..Len(output) :
          /\ output[i].value # Null
          /\ output[i].date \notin DatesOf(input.source.pts)

\* ------------------------------------------------ specification: the page
\* String.prototype.trim and toUpperCase on the text of a field
TrimField(x) == [x EXCEPT !.pad = FALSE]
ToUpperCase(x) == [x EXCEPT !.lower = FALSE]

getCurrentTicker == ToUpperCase(TrimField(tickerInputTop))
getCurrentApiKey == TrimField(alphaVantageApiKeyTop)

\* what the user may type
TickerTexts == {EmptyString, FieldText("", FALSE, TRUE), FieldText("IBM", FALSE, FALSE),
                FieldText("IBM", TRUE, TRUE), FieldText("SAP", FALSE, FALSE)}
ApiKeyTexts == {EmptyString, FieldText("", FALSE, TRUE), FieldText("KEY", TRUE, FALSE),
                FieldText("KEY", TRUE, TRUE), FieldText("KEY", FALSE, FALSE)}
Tabs == {"raw", "recipes"}

\* fetchTabData without the test of loadedTabs.raw
fetchTabDataUnguarded(tab, tabs) ==
    IF getCurrentTicker = EmptyString \/ getCurrentApiKey = EmptyString
    THEN [loadedTabs |-> tabs, plotData |-> FALSE]
    ELSE IF tab = "raw"
    THEN [loadedTabs |-> [tabs EXCEPT !.raw = TRUE], plotData |-> TRUE]
    ELSE IF tab = "recipes" /\ ~tabs.recipes
    THEN [loadedTabs |-> [tabs EXCEPT !.recipes = TRUE], plotData |-> FALSE]
    ELSE [loadedTabs |-> tabs, plotData |-> FALSE]

\* fetchTabData(tab) with loadedTabs as given: loadedTabs as it leaves it,
\* and whether it called plotData
fetchTabData(tab, tabs) ==
    IF getCurrentTicker = EmptyString \/ getCurrentApiKey = EmptyString
    THEN [loadedTabs |-> tabs, plotData |-> FALSE]
    ELSE IF tab = "raw" /\ ~tabs.raw
    THEN [loadedTabs |-> [tabs EXCEPT !.raw = TRUE], plotData |-> TRUE]
    ELSE IF tab = "recipes" /\ ~tabs.recipes
    THEN [loadedTabs |-> [tabs EXCEPT !.recipes = TRUE], plotData |-> FALSE]
    ELSE [loadedTabs |-> tabs, plotData |-> FALSE]

\* the last event handled: which one, whether it called resetLoadedTabs and
\* whether it called plotData
Handled(event, reset, plot) == [event |-> event, reset |-> reset, plotData |-> plot]

\* output is the state of the plotData call started last: "none", "loading",
\* "plotted" or "failed"; plotDataStarts counts the calls of plotData made
\* by fetchTabData since resetLoadedTabs ran last
InitPage ==
    /\ pc = "PAGE"
    /\ input = Handled("DOMContentLoaded", FALSE, FALSE)
    /\ output = "none"
    /\ LocalsUnset
    /\ CacheEmpty
    /\ FetcherIdle
    /\ PageAtLoad

\* the user types in a field
EditTicker ==
    /\ pc = "PAGE"
    /\ \E text \in TickerTexts : tickerInputTop' = text
    /\ input' = Handled("input", FALSE, FALSE)
    /\ UNCHANGED <<pc, output, locals, cache, fetcher, loadedTabs, lastTicker, lastApiKey,
                   alphaVantageApiKeyTop, activeTab, plotDataStarts>>

EditApiKey ==
    /\ pc = "PAGE"
    /\ \E text \in ApiKeyTexts : alphaVantageApiKeyTop' = text
    /\ input' = Handled("input", FALSE, FALSE)
    /\ UNCHANGED <<pc, output, locals, cache, fetcher, loadedTabs, lastTicker, lastApiKey,
                   tickerInputTop, activeTab, plotDataStarts>>

\* the click handler of a tab button (lines 75-87)
TabClick ==
    /\ pc = "PAGE"
    /\ \E tab \in Tabs :
          LET after == fetchTabData(tab, loadedTabs)
          IN  /\ activeTab' = tab
              /\ loadedTabs' = after.loadedTabs
              /\ plotDataStarts' = IF after.plotData THEN plotDataStarts + 1 ELSE plotDataStarts
              /\ output' = IF after.plotData THEN "loading" ELSE output
              /\ input' = Handled("tab click", FALSE, after.plotData)
    /\ UNCHANGED <<pc, locals, cache, fetcher, lastTicker, lastApiKey,
                   tickerInputTop, alphaVantageApiKeyTop>>

\* the click handler of the Load button (lines 618-627)
LoadClick ==
    /\ pc = "PAGE"
    /\ LET changed == getCurrentTicker # lastTicker \/ getCurrentApiKey # lastApiKey
           tabs == IF changed THEN [raw |-> FALSE, recipes |-> FALSE] ELSE loadedTabs
           starts == IF changed THEN 0 ELSE plotDataStarts
           after == fetchTabData(activeTab, tabs)
       IN  /\ lastTicker' = IF changed THEN getCurrentTicker ELSE lastTicker
           /\ lastApiKey' = IF changed THEN getCurrentApiKey ELSE lastApiKey
           /\ loadedTabs' = after.loadedTabs
           /\ plotDataStarts' = IF after.plotData THEN starts + 1 ELSE starts
           /\ output' = IF after.plotData THEN "loading" ELSE output
           /\ input' = Handled("load click", changed, after.plotData)
    /\ UNCHANGED <<pc, locals, cache, fetcher, tickerInputTop, alphaVantageApiKeyTop, activeTab>>

\* the plotData call started last comes to its end: the chart is drawn, or
\* the fetch or the processing threw and the catch of line 658 logged it
PlotDataEnds ==
    /\ pc = "PAGE"
    /\ output = "loading"
    /\ \E end \in {"plotted", "failed"} : output' = end
    /\ input' = Handled("plotData ends", FALSE, FALSE)
    /\ UNCHANGED <<pc, locals, cache, fetcher, page>>

NextPage == EditTicker \/ EditApiKey \/ TabClick \/ LoadClick \/ PlotDataEnds

SpecPage == InitPage /\ [][NextPage]_vars

\* C30: under any sequence of Load clicks, tab clicks and edits of the two
\* fields, fetchTabData calls plotData at most once between two runs of
\* resetLoadedTabs; resetLoadedTabs runs only in a Load click that finds the
\* ticker or the key different from the last loaded one, and no other step
\* clears a flag of loadedTabs; the raw flag is set in the step that calls
\* plotData and is still set when that call has failed.
C30_OnePlotPerReset ==
    [][ /\ plotDataStarts' <= 1
        /\ input'.reset =>
              /\ input'.event = "load click"
              /\ getCurrentTicker # lastTicker \/ getCurrentApiKey # lastApiKey
        /\ ~input'.reset =>
              /\ loadedTabs.raw => loadedTabs'.raw
              /\ loadedTabs.recipes => loadedTabs'.recipes
              /\ plotDataStarts' >= plotDataStarts
        /\ input'.plotData =>
              /\ input'.event \in {"load click", "tab click"}
              /\ loadedTabs'.raw
              /\ plotDataStarts' = 1
              /\ output' = "loading"
        /\ loadedTabs'.raw <=> plotDataStarts' = 1
        /\ input'.event = "plotData ends" =>
              /\ loadedTabs' = loadedTabs
              /\ plotDataStarts' = plotDataStarts
      ]_vars

\* the load of a ticker has failed, and a Load click after the failure, on
\* the same ticker typed in lower case between spaces and the same key,
\* neither ran resetLoadedTabs nor called plotData
C30_Witness ==
    /\ output = "failed"
    /\ loadedTabs.raw
    /\ plotDataStarts = 1
    /\ input.event = "load click"
    /\ ~input.reset
    /\ ~input.plotData
    /\ activeTab = "raw"
    /\ lastTicker = FieldText("IBM", FALSE, FALSE)
    /\ tickerInputTop = FieldText("IBM", TRUE, TRUE)
    /\ getCurrentApiKey = lastApiKey

====
